---- MODULE Spec2Model ----
(***************************************************************************)
(* A model of the isometric tile world of src/game.py and                  *)
(* src/libs/utils.py: the grid/pixel transform (Grid), the tile layout     *)
(* (TileMap), the voxel render pass (VoxelArtwork), the player's movement  *)
(* state machine and the gravity step (Player, Game).                      *)
(*                                                                         *)
(* Numbers.  Grid positions are integers in thousandths of a tile (the     *)
(* code rounds every position to 3 decimals).  Pixel quantities (scale, z, *)
(* dz, pixel points) are exact rationals <<n, d>> with d > 0 in lowest     *)
(* terms; the floats of the code are modelled by their exact values.       *)
(***************************************************************************)
EXTENDS Integers, Sequences, FiniteSets, TLC

\* ------------------------------------------------------------ bounds
\* N of Grid(N): the grid is N x N tiles (the game builds Grid(self, N=50)).
GridN == 4
\* The zoom events (mouse wheel) accepted in one run.
MaxZoom == 2
\* The tiles of a layout drawn for the render pass.
MaxTiles == 2
\* Positions stay within this many tiles of the origin (key events are not
\* accepted beyond it).
MaxCoord == 3
\* The drags of the view (middle button) accepted in one run.
MaxPan == 1
\* The ticks that run with an offset key (E, e, F, f) held.
MaxNudge == 1
\* The player rises at most this many pixels above the ground plane.
MaxRise == 12
\* A float sum is held in units of 1/Fine of a thousandth, and is off from
\* the exact sum by at most MaxErr of these units (the error of a float
\* addition is far below half a thousandth; 2 * MaxErr < Fine).
Fine == 4
MaxErr == 1
\* The additions and subtractions of one chain.
MaxSteps == 5
\* The presses of the free movement keys (s, w, a, d) accepted in one run.
MaxPresses == 2
\* The left clicks accepted in one run.
MaxClicks == 1
\* The longest text typed while casting.
MaxKeystrokes == 1
\* The size of the TimerFifo (Timer builds TimerFifo(size=10)), the largest
\* reading, and the updates of one run.
FifoSize == 3
MaxReading == 2
MaxUpdates == 5

\* ------------------------------------------------------------ rationals
\* An operator that uses an argument more than once first binds its value
\* (CHOOSE r \in {F(v) : v \in {argument}} : TRUE), so that the argument is
\* evaluated once.
Abs(n) == IF n < 0 THEN -n ELSE n

RECURSIVE GCD(_, _)
GCD(m, n) ==
    IF n = 0 THEN m ELSE CHOOSE g \in {GCD(n, r) : r \in {m % n}} : TRUE

RNormV(n, d, g) == <<n \div g, d \div g>>
RNorm(n, d) ==
    CHOOSE r \in {RNormV(a, b, g) : <<a, b, g>> \in {<<n, d, GCD(Abs(n), d)>>}} : TRUE
RInt(k) == <<k, 1>>
RNeg(p) == CHOOSE r \in {<<-a[1], a[2]>> : a \in {p}} : TRUE
RAddV(p, q, g) ==
    RNorm(p[1] * (q[2] \div g) + q[1] * (p[2] \div g), (p[2] \div g) * q[2])
RAdd(p, q) ==
    CHOOSE r \in {RAddV(a, b, GCD(a[2], b[2])) : a \in {p}, b \in {q}} : TRUE
RSub(p, q) == RAdd(p, RNeg(q))
RMulV(p, q, g1, g2) ==
    <<(p[1] \div g1) * (q[1] \div g2), (p[2] \div g2) * (q[2] \div g1)>>
RMul(p, q) ==
    CHOOSE r \in {RMulV(a, b, GCD(Abs(a[1]), b[2]), GCD(Abs(b[1]), a[2])) :
                     a \in {p}, b \in {q}} : TRUE
\* 1 / q for q /= 0
RInv(q) ==
    CHOOSE r \in {IF b[1] < 0 THEN <<-b[2], -b[1]>> ELSE <<b[2], b[1]>> :
                     b \in {q}} : TRUE
RDiv(p, q) == RMul(p, RInv(q))
RLessV(p, q, g) == p[1] * (q[2] \div g) < q[1] * (p[2] \div g)
RLess(p, q) ==
    CHOOSE r \in {RLessV(a, b, GCD(a[2], b[2])) : a \in {p}, b \in {q}} : TRUE
RLeq(p, q) == ~RLess(q, p)
RMin(p, q) ==
    CHOOSE r \in {IF RLess(b, a) THEN b ELSE a : a \in {p}, b \in {q}} : TRUE
\* ------------------------------------------------------------ Python numbers
Milli == 1000
\* int(x): truncation toward zero, x in thousandths.
int(m) == IF m >= 0 THEN m \div Milli ELSE -((-m) \div Milli)
\* round(x): to the nearest integer, ties to the even one, x in thousandths.
Round(m) ==
    LET q == m \div Milli
        r == m % Milli
    IN  IF 2 * r < Milli THEN q
        ELSE IF 2 * r > Milli THEN q + 1
        ELSE IF q % 2 = 0 THEN q ELSE q + 1
\* round(x) of a rational x.
RRoundV(q, r, d) ==
    IF 2 * r < d THEN q
    ELSE IF 2 * r > d THEN q + 1
    ELSE IF q % 2 = 0 THEN q ELSE q + 1
RRound(p) ==
    CHOOSE r \in {RRoundV(a[1] \div a[2], a[1] % a[2], a[2]) : a \in {p}} : TRUE
\* A variant of RoundTo3 that cuts the digits off instead of rounding.
TruncateTo3(fine, f) == fine \div f
\* round(x, p) of a value held in thousandths, p = 3 decimals: the value in
\* thousandths nearest to a sum given in units of 1/(1000*f).
RoundTo3(fine, f) ==
    LET q == fine \div f
        r == fine % f
    IN  IF 2 * r < f THEN q
        ELSE IF 2 * r > f THEN q + 1
        ELSE IF q % 2 = 0 THEN q ELSE q + 1

\* utils.floor, utils.ceiling: x in thousandths, result in tiles.
floor(m) == IF m < 0 THEN int(m) - 1 ELSE int(m)
ceiling(m) == IF m < 0 THEN int(m) ELSE int(m) + 1
\* utils.add, utils.subtract with p = 3: a, b and the result in thousandths.
add(a, b) == RoundTo3(a + b, 1)
subtract(a, b) == RoundTo3(a - b, 1)
\* utils.add, utils.subtract on floats: round(a + b, 3) and round(a - b, 3)
\* of a float sum that is off from the exact sum by err units of 1/Fine of a
\* thousandth.
FloatErrors == (-MaxErr)..MaxErr
add_float(a, b, err) == RoundTo3((a + b) * Fine + err, Fine)
subtract_float(a, b, err) == RoundTo3((a - b) * Fine + err, Fine)

\* ------------------------------------------------------------ program constants
\* Player.__init__
speed_walk == 200
speed_rise == RInt(3)
\* A variant of zclimbmax one tile unit lower.
zclimbmax_low == <<5, 2>>
zclimbmax == <<7, 2>>
\* Game.__init__
gravity == <<1, 2>>
max_fall_speed == RInt(15)
\* Grid.zoom_to_fit
margin == 200
\* Grid.det: the stand-in for a zero determinant, 0.0001
det_epsilon == <<1, 10000>>
\* "Earth ground" of Game.update_gravity_effects, in units of scale
earth_ground == 1000

\* libs.utils.define_moves
define_moves ==
    [move_down |-> FALSE, move_up |-> FALSE, move_right |-> FALSE, move_left |-> FALSE,
     move_down_to_tile |-> FALSE, move_up_to_tile |-> FALSE,
     move_right_to_tile |-> FALSE, move_left_to_tile |-> FALSE]
\* libs.utils.define_held_keys
define_held_keys ==
    [key_Space |-> FALSE, key_Shift_Space |-> FALSE,
     key_A |-> FALSE, key_B |-> FALSE, key_b |-> FALSE, key_C |-> FALSE,
     key_c |-> FALSE, key_D |-> FALSE, key_E |-> FALSE, key_e |-> FALSE,
     key_F |-> FALSE, key_f |-> FALSE,
     key_j |-> FALSE, key_k |-> FALSE, key_h |-> FALSE, key_l |-> FALSE,
     key_s |-> FALSE, key_w |-> FALSE, key_a |-> FALSE, key_d |-> FALSE]
\* libs.utils.define_settings
define_settings == [setting_show_help |-> TRUE, setting_debug |-> FALSE]
\* libs.utils.define_colors: the keys of the colour dictionary
define_colors ==
    {"color_clear", "color_debug_hud", "color_help_hud", "color_debug_keystrokes",
     "color_game_art_bgnd", "color_grid_lines", "color_vertical_lines",
     "color_voxel_top", "color_voxel_left", "color_voxel_right",
     "color_grid_x_axis", "color_grid_y_axis", "color_floor_solid",
     "color_floor_shadow", "color_floor_shadow_light"}

\* ------------------------------------------------------------ tile map
\* TileMap.__init__: the layout covers x in a..b-1, y in a..b.
tm_a == -(GridN \div 2)
tm_b == GridN \div 2
\* The walk over the grid of TileMap.__init__ and VoxelArtwork.render:
\* for j in range(b, a-1, -1): for i in range(a, b).
grid_list ==
    LET w == tm_b - tm_a
    IN  [k \in 1..(w * (w + 1)) |->
            <<tm_a + ((k - 1) % w), tm_b - ((k - 1) \div w)>>]
Cells == {grid_list[k] : k \in DOMAIN grid_list}

\* A tile descriptor of TileMap.layout.
Tile(z, percentage, height, style, rand_amt) ==
    [z |-> z, percentage |-> percentage, height |-> height, style |-> style,
     rand_amt |-> rand_amt]
Styles == {"style_floor_tiles", "style_shade_faces_solid_color", "style_skeleton_frame"}
\* TileMap.__init__, "Make walls" and "Fill the rest of the layout with floor
\* tiles", on the small grid (the walls keep their heights and styles and
\* are given rand_amt 0).
floor_tile == Tile(-2, <<19, 20>>, 2, "style_floor_tiles", 1)
OuterWall(G) ==
    LET a == tm_a
        b == tm_b
        \* the last i in range(a, b) whose iteration assigns layout[G], and
        \* the last of its four assignments that does
        i == IF G[1] \in a..(b - 1) /\ G[2] \in {a, b - 1}
             THEN IF G[1] \in {a, b - 1} /\ G[2] \in a..(b - 1) /\ G[2] > G[1]
                  THEN G[2] ELSE G[1]
             ELSE G[2]
    IN  IF G = <<b - 1, i>>
        THEN Tile(0, <<1, 1>>, 25, "style_skeleton_frame", 0)
        ELSE IF G = <<a, i>>
        THEN Tile(0, <<1, 1>>, 65, "style_shade_faces_solid_color", 0)
        ELSE IF G = <<i, b - 1>>
        THEN Tile(0, <<1, 1>>, 65, "style_shade_faces_solid_color", 0)
        ELSE Tile(0, <<1, 1>>, 25, "style_shade_faces_solid_color", 0)
IsOuterWall(G) ==
    \/ G[1] \in tm_a..(tm_b - 1) /\ G[2] \in {tm_a, tm_b - 1}
    \/ G[1] \in {tm_a, tm_b - 1} /\ G[2] \in tm_a..(tm_b - 1)
TileMapLayout == [G \in Cells |-> IF IsOuterWall(G) THEN OuterWall(G) ELSE floor_tile]
\* The same layout drawn as wire frames, the one style whose colours
\* libs.utils.define_colors defines.
Restyle(lay, style) == [G \in DOMAIN lay |-> [lay[G] EXCEPT !.style = style]]
WireLayout == Restyle(TileMapLayout, "style_skeleton_frame")
\* The same layout with its floor tiles in their own style and its walls as
\* wire frames.
FloorLayout == [G \in Cells |-> IF IsOuterWall(G) THEN WireLayout[G] ELSE floor_tile]
\* The floor of the game's tile map (N = 50) along the y axis around the
\* starting tile, drawn as wire frames: the walls and stairs of that map lie
\* further than MaxCoord + 1 tiles from the origin.
OpenFloor ==
    Restyle([G \in {0} \X (-(MaxCoord + 1)..(MaxCoord + 1)) |-> floor_tile],
            "style_skeleton_frame")
\* A layout of wire-frame tiles around the starting tile: a flat tile under
\* the player, steps of 3 and 6, a wall of 5 and walls of 50.
Wire(height) == Tile(0, <<1, 1>>, height, "style_skeleton_frame", 0)
ClimbLayout ==
    [G \in (-2..1) \X (-2..1) |->
        CASE G = <<0, 0>> -> Wire(0)
          [] G = <<0, -1>> -> Wire(3)
          [] G = <<-1, -1>> -> Wire(6)
          [] G = <<-1, 0>> -> Wire(5)
          [] OTHER -> Wire(50)]
\* Three tiles in a row whose voxels get a height drawn from 1, 2 or 3
\* values, the middle one under the starting tile, between two walls.
JitterLayout ==
    (<<-2, 0>> :> Tile(0, <<0, 1>>, 50, "style_skeleton_frame", 0))
    @@ (<<-1, 0>> :> Tile(0, <<19, 20>>, 1, "style_skeleton_frame", 2))
    @@ (<<0, 0>> :> Tile(0, <<1, 1>>, 0, "style_skeleton_frame", 0))
    @@ (<<1, 0>> :> Tile(-2, <<1, 2>>, 2, "style_skeleton_frame", 3))
    @@ (<<2, 0>> :> Wire(50))
\* The same layout without a tile under the starting tile.
PitLayout == [G \in DOMAIN ClimbLayout \ {<<0, 0>>} |-> ClimbLayout[G]]
\* Two flat tiles with no tile around them but a wall two tiles down.
LedgeLayout ==
    [G \in {<<0, 0>>, <<-1, 0>>, <<0, -2>>} |->
        IF G = <<0, -2>> THEN Wire(50) ELSE Wire(0)]

\* VoxelArtwork.make_voxels_from_tile_map: the heights random.choice may draw
\* for one tile.
\* A variant of VoxelHeights that draws from height .. height + rand_amt.
VoxelHeightsInclusive(wall) ==
    IF wall.rand_amt > 0
    THEN wall.height .. (wall.height + wall.rand_amt)
    ELSE {wall.height}
VoxelHeights(wall) ==
    IF wall.rand_amt > 0
    THEN wall.height .. (wall.height + wall.rand_amt - 1)
    ELSE {wall.height}
\* One voxel (grid_points are the unit square at the key, see GridPoints).
Voxel(wall, height) ==
    [z |-> wall.z, percentage |-> wall.percentage, height |-> height,
     style |-> wall.style]
\* The voxel dictionaries a rebuild may return for a layout.
RECURSIVE VoxelMaps(_, _)
VoxelMaps(lay, D) ==
    IF D = {} THEN {<<>>}
    ELSE LET G == CHOOSE c \in D : TRUE
         IN  {(G :> Voxel(lay[G], h)) @@ rest :
                 h \in VoxelHeights(lay[G]), rest \in VoxelMaps(lay, D \ {G})}
make_voxels_from_tile_map(lay) == VoxelMaps(lay, DOMAIN lay)
\* A variant of the rebuild that stores a raised height in each tile.
tile_map_with_heights_raised(lay) ==
    [G \in DOMAIN lay |-> [lay[G] EXCEPT !.height = @ + lay[G].rand_amt]]
\* VoxelArtwork.make_voxels_from_tile_map: the tile map after the call.  The
\* loop reads wall = layout[G] and assigns to voxel_artwork[G] only.
tile_map_after_make_voxels(lay) == lay
GridPoints(G) ==
    <<G, <<G[1] + 1, G[2]>>, <<G[1] + 1, G[2] + 1>>, <<G[1], G[2] + 1>>>>
\* Player.voxel = None
None == [present |-> FALSE]

\* ------------------------------------------------------------ Grid
\* Grid.pan_ref = (None, None)
NoRef == <<>>
\* A variant of zoom_to_fit that takes the larger of the two ratios.
zoom_to_fit_max(g, size) ==
    IF RLess(RNorm(size[1], Abs(g.a * GridN + g.b * GridN) + margin),
             RNorm(size[2], Abs(g.c * GridN + g.d * GridN) + margin))
    THEN RNorm(size[2], Abs(g.c * GridN + g.d * GridN) + margin)
    ELSE RNorm(size[1], Abs(g.a * GridN + g.b * GridN) + margin)
\* Grid.zoom_to_fit: the scale that fits the N x N grid and the margin into a
\* window of the given size.
zoom_to_fit(g, size) ==
    LET size_p == <<Abs(g.a * GridN + g.b * GridN) + margin,
                    Abs(g.c * GridN + g.d * GridN) + margin>>
        scale_x == RNorm(size[1], size_p[1])
        scale_y == RNorm(size[2], size_p[2])
    IN  RMin(scale_x, scale_y)
\* Grid.reset: the initial view for a window of the given size.
reset(size) ==
    LET base == [a |-> 8, b |-> 7, c |-> 3, d |-> -5]
        ctr == <<size[1] \div 2, size[2] \div 2>>
    IN  [a |-> base.a, b |-> base.b, c |-> base.c, d |-> base.d,
         e |-> ctr[1], f |-> ctr[2],
         pan_origin |-> ctr, pan_ref |-> NoRef, is_panning |-> FALSE,
         scale |-> zoom_to_fit(base, size)]
\* Grid.scaled
scaled(g) ==
    <<RMul(RInt(g.a), g.scale), RMul(RInt(g.b), g.scale),
      RMul(RInt(g.c), g.scale), RMul(RInt(g.d), g.scale)>>
\* A variant of det without the stand-in for a zero determinant.
det_no_epsilon(g) ==
    CHOOSE r \in {RSub(RMul(m[1], m[4]), RMul(m[2], m[3])) : m \in {scaled(g)}} : TRUE
\* A variant of det that leaves the scale out.
det_unscaled(g) == RInt(g.a * g.d - g.b * g.c)
\* Grid.det
det(g) ==
    CHOOSE r \in {IF dd = RInt(0) THEN det_epsilon ELSE dd :
                     dd \in {RSub(RMul(m[1], m[4]), RMul(m[2], m[3])) :
                                m \in {scaled(g)}}} : TRUE
\* A variant of xfm_gp that scales the offset (e, f) too.
xfm_gp_scaled_offset(g, point) ==
    <<RMul(g.scale, RAdd(RAdd(RMul(RInt(g.a), point[1]), RMul(RInt(g.b), point[2])),
                         RInt(g.e))),
      RMul(g.scale, RAdd(RAdd(RMul(RInt(g.c), point[1]), RMul(RInt(g.d), point[2])),
                         RInt(g.f)))>>
\* Grid.xfm_gp: grid point (rationals) to pixel point (rationals).
xfm_gpV(m, e, f, point) ==
    <<RAdd(RAdd(RMul(m[1], point[1]), RMul(m[2], point[2])), e),
      RAdd(RAdd(RMul(m[3], point[1]), RMul(m[4], point[2])), f)>>
xfm_gp(g, point) ==
    CHOOSE r \in {xfm_gpV(m, RInt(g.e), RInt(g.f), pt) :
                     m \in {scaled(g)}, pt \in {point}} : TRUE
\* Grid.xfm_pg with p = 0: pixel point (rationals) to grid point (integers).
xfm_pgV(m, e, f, dt, point) ==
    LET g0 == RAdd(RAdd(RMul(RDiv(m[4], dt), point[1]),
                        RMul(RDiv(RNeg(m[2]), dt), point[2])),
                   RDiv(RSub(RMul(m[2], f), RMul(m[4], e)), dt))
        g1 == RAdd(RAdd(RMul(RDiv(RNeg(m[3]), dt), point[1]),
                        RMul(RDiv(m[1], dt), point[2])),
                   RDiv(RSub(RMul(m[3], e), RMul(m[1], f)), dt))
    IN  <<RRound(g0), RRound(g1)>>
xfm_pg(g, point) ==
    CHOOSE r \in {xfm_pgV(m, RInt(g.e), RInt(g.f), dt, pt) :
                     m \in {scaled(g)}, dt \in {det(g)}, pt \in {point}} : TRUE
\* Grid.xfm_pg: the divisions d/det, b/det, ... raise ZeroDivisionError when
\* det is 0.
ZeroDivisionError(g) == det(g) = RInt(0)
\* A variant of zoom_in that stops at a scale of 2.
zoom_in_clamped(g) == [g EXCEPT !.scale = RMin(RMul(g.scale, <<11, 10>>), RInt(2))]
\* Grid.zoom_in, Grid.zoom_out
zoom_in(g) == [g EXCEPT !.scale = RMul(g.scale, <<11, 10>>)]
zoom_out(g) == [g EXCEPT !.scale = RMul(g.scale, <<9, 10>>)]
\* Grid.pan
pan(g, mpos) ==
    [g EXCEPT !.e = g.pan_origin[1] + (mpos[1] - g.pan_ref[1]),
              !.f = g.pan_origin[2] + (mpos[2] - g.pan_ref[2])]
\* An integer pixel or grid point as a pair of rationals.
RPoint(pt) == <<RInt(pt[1]), RInt(pt[2])>>

\* ------------------------------------------------------------ Player
Directions == <<"down", "up", "left", "right">>
ToTile(direction) ==
    CASE direction = "down" -> "move_down_to_tile"
      [] direction = "up" -> "move_up_to_tile"
      [] direction = "left" -> "move_left_to_tile"
      [] direction = "right" -> "move_right_to_tile"
Free(direction) ==
    CASE direction = "down" -> "move_down"
      [] direction = "up" -> "move_up"
      [] direction = "left" -> "move_left"
      [] direction = "right" -> "move_right"
\* The condition of one "if" of Player.update_movement.
Active(p, direction) == p.moves[ToTile(direction)] \/ p.moves[Free(direction)]

\* Player.update_actions
update_actions(p) ==
    IF p.action_levitate
    THEN [p EXCEPT !.dz = RInt(0), !.z = RSub(p.z, speed_rise)]
    ELSE p

\* Player.update_movement_state
update_movement_state(p) ==
    IF p.is_on_tile
    THEN [p EXCEPT !.pos_start = p.pos, !.is_on_tile = FALSE]
    ELSE p

\* Player.update_movement_pos: the position after one step of speed_walk.
Advance(pos, direction) ==
    CASE direction = "down" -> <<pos[1], subtract(pos[2], speed_walk)>>
      [] direction = "up" -> <<pos[1], add(pos[2], speed_walk)>>
      [] direction = "left" -> <<subtract(pos[1], speed_walk), pos[2]>>
      [] direction = "right" -> <<add(pos[1], speed_walk), pos[2]>>
\* Player.update_movement_pos: the test for having reached the next tile.
ReachedNextTile(pos, pos_start, direction) ==
    CASE direction = "down" -> pos[2] <= pos_start[2] - Milli
      [] direction = "up" -> pos[2] >= pos_start[2] + Milli
      [] direction = "left" -> pos[1] <= pos_start[1] - Milli
      [] direction = "right" -> pos[1] >= pos_start[1] + Milli
\* Player.update_movement_pos: "Clamp movement to next tile".
NextTile(pos_start, direction) ==
    CASE direction = "down" -> <<pos_start[1], pos_start[2] - Milli>>
      [] direction = "up" -> <<pos_start[1], pos_start[2] + Milli>>
      [] direction = "left" -> <<pos_start[1] - Milli, pos_start[2]>>
      [] direction = "right" -> <<pos_start[1] + Milli, pos_start[2]>>
update_movement_pos(p, direction) ==
    LET moved == Advance(p.pos, direction)
    IN  IF ReachedNextTile(moved, p.pos_start, direction)
        THEN [p EXCEPT !.pos = NextTile(p.pos_start, direction),
                       !.moves[ToTile(direction)] = FALSE,
                       !.is_on_tile = TRUE,
                       !.pos_start = NextTile(p.pos_start, direction)]
        ELSE [p EXCEPT !.pos = moved]

\* A variant of tile_is_too_high_to_walk_onto that leaves the scale out of
\* the height of the tile's top.
tile_is_too_high_unscaled(z, voxel, scale) ==
    RLess(RInt(-1 * (voxel.z + voxel.height)), RSub(z, RMul(zclimbmax, scale)))
\* Player.tile_is_too_high_to_walk_onto
tile_is_too_high_to_walk_onto(z, voxel, scale) ==
    RLess(RMul(RInt(-1 * (voxel.z + voxel.height)), scale),
          RSub(z, RMul(zclimbmax, scale)))
\* Player.handle_collision: the tile looked at in the direction of travel.
Neighbor(pos, direction) ==
    CASE direction = "down" -> <<int(pos[1]), floor(pos[2])>>
      [] direction = "up" -> <<int(pos[1]), ceiling(pos[2])>>
      [] direction = "left" -> <<floor(pos[1]), int(pos[2])>>
      [] direction = "right" -> <<ceiling(pos[1]), int(pos[2])>>
\* A variant of BlockedPos that leaves the player where the step put it.
BlockedPosNoSnap(pos, neighbor, direction) == pos
\* Player.handle_collision: "Block the player from moving here".
BlockedPos(pos, neighbor, direction) ==
    CASE direction = "down" -> <<pos[1], (neighbor[2] + 1) * Milli>>
      [] direction = "up" -> <<pos[1], (neighbor[2] - 1) * Milli>>
      [] direction = "left" -> <<(neighbor[1] + 1) * Milli, pos[2]>>
      [] direction = "right" -> <<(neighbor[1] - 1) * Milli, pos[2]>>
\* A variant of Collides that takes a coordinate with no tile for a tile
\* too high to walk onto.
CollidesWithVoid(p, direction, lay, vox, scale) ==
    LET neighbor == Neighbor(p.pos, direction)
    IN  \/ neighbor \notin DOMAIN lay
        \/ tile_is_too_high_to_walk_onto(p.z, vox[neighbor], scale)
\* Player.handle_collision: "There is a tile there" and it is too high.
Collides(p, direction, lay, vox, scale) ==
    LET neighbor == Neighbor(p.pos, direction)
    IN  /\ neighbor \in DOMAIN lay
        /\ tile_is_too_high_to_walk_onto(p.z, vox[neighbor], scale)
handle_collision(p, direction, lay, vox, scale) ==
    LET neighbor == Neighbor(p.pos, direction)
    IN  IF Collides(p, direction, lay, vox, scale)
        THEN [p EXCEPT !.pos = BlockedPos(p.pos, neighbor, direction),
                       !.moves[ToTile(direction)] = FALSE,
                       !.is_on_tile = TRUE]
        ELSE p
\* One "if" block of Player.update_movement for a direction.
MoveInDirection(p, direction, lay, vox, scale) ==
    IF Active(p, direction)
    THEN handle_collision(
             update_movement_pos(update_movement_state(p), direction),
             direction, lay, vox, scale)
    ELSE p
\* Player.update_movement: the four blocks in the order down, up, left, right.
RECURSIVE MoveInDirections(_, _, _, _, _)
MoveInDirections(k, p, lay, vox, scale) ==
    IF k > Len(Directions) THEN p
    ELSE CHOOSE r \in {MoveInDirections(k + 1, p1, lay, vox, scale) :
                           p1 \in {MoveInDirection(p, Directions[k], lay, vox, scale)}} : TRUE
update_movement(p, lay, vox, scale) == MoveInDirections(1, p, lay, vox, scale)
\* The player as block k of update_movement finds it.
RECURSIVE BeforeBlock(_, _, _, _, _)
BeforeBlock(k, p, lay, vox, scale) ==
    IF k = 1 THEN p
    ELSE CHOOSE r \in {MoveInDirection(p1, Directions[k - 1], lay, vox, scale) :
                           p1 \in {BeforeBlock(k - 1, p, lay, vox, scale)}} : TRUE
\* The directions whose block of update_movement took the collision branch.
CollidesInBlock(p, direction, lay, vox, scale) ==
    /\ Active(p, direction)
    /\ Collides(update_movement_pos(update_movement_state(p), direction),
                direction, lay, vox, scale)
Collisions(p, lay, vox, scale) ==
    {Directions[k] : k \in
        {i \in DOMAIN Directions :
            \E p1 \in {BeforeBlock(i, p, lay, vox, scale)} :
                CollidesInBlock(p1, Directions[i], lay, vox, scale)}}
\* Player.stop_all_movement
stop_all_movement(p) == [p EXCEPT !.moves = define_moves]
\* Player.update_voxel
update_voxel(p, lay, vox) ==
    LET G == <<Round(p.pos[1]), Round(p.pos[2])>>
    IN  [p EXCEPT !.voxel = IF G \in DOMAIN lay THEN vox[G] ELSE None]

\* ------------------------------------------------------------ TimerFifo
\* TimerFifo.__init__: data is None, and a list of readings after an update.
NewTimerFifo(size) ==
    [size |-> size, readings |-> [i \in 1..size |-> 0], num_readings |-> 0,
     data |-> None]
\* A variant of update that pops the newest reading instead of the oldest.
update_pop_front(f, reading) ==
    LET inserted == <<reading>> \o Tail(f.readings)
        num == IF f.num_readings + 1 < f.size THEN f.num_readings + 1 ELSE f.size
    IN  [f EXCEPT !.readings = inserted, !.num_readings = num,
                  !.data = [present |-> TRUE, items |-> SubSeq(inserted, 1, num)]]
\* TimerFifo.update
update(f, reading) ==
    LET popped == SubSeq(f.readings, 1, Len(f.readings) - 1)
        inserted == <<reading>> \o popped
        num == IF f.num_readings + 1 < f.size THEN f.num_readings + 1 ELSE f.size
    IN  [f EXCEPT !.readings = inserted, !.num_readings = num,
                  !.data = [present |-> TRUE, items |-> SubSeq(inserted, 1, num)]]
\* statistics.fmean
RECURSIVE Sum(_)
Sum(data) == IF data = <<>> THEN 0 ELSE Head(data) + Sum(Tail(data))
fmean(data) == RNorm(Sum(data), Len(data))
\* TimerFifo.mean
mean(f) ==
    IF f.data /= None /\ f.data.items /= <<>> THEN fmean(f.data.items) ELSE RInt(0)

\* ------------------------------------------------------------ Game
\* A variant of FloorHeight that leaves the scale out of the tile's top.
FloorHeightUnscaled(voxel, scale) ==
    IF voxel /= None
    THEN RInt(-1 * (voxel.z + voxel.height))
    ELSE RMul(RInt(earth_ground), scale)
\* A variant of update_gravity_effects without the cap on the fall speed.
update_gravity_uncapped(p, scale) ==
    IF RLess(IF p.voxel /= None
             THEN RMul(RInt(-1 * (p.voxel.z + p.voxel.height)), scale)
             ELSE RMul(RInt(earth_ground), scale),
             RAdd(p.z, RAdd(p.dz, gravity)))
    THEN [p EXCEPT !.dz = RInt(0),
                   !.z = IF p.voxel /= None
                         THEN RMul(RInt(-1 * (p.voxel.z + p.voxel.height)), scale)
                         ELSE RMul(RInt(earth_ground), scale)]
    ELSE [p EXCEPT !.z = RAdd(p.z, RAdd(p.dz, gravity)), !.dz = RAdd(p.dz, gravity)]
\* Game.update_gravity_effects
FloorHeight(voxel, scale) ==
    IF voxel /= None
    THEN RMul(RInt(-1 * (voxel.z + voxel.height)), scale)
    ELSE RMul(RInt(earth_ground), scale)
update_gravity_effects(p, scale) ==
    LET dz == RMin(max_fall_speed, RAdd(p.dz, gravity))
        z == RAdd(p.z, dz)
        floor_height == FloorHeight(p.voxel, scale)
    IN  IF RLess(floor_height, z)
        THEN [p EXCEPT !.z = floor_height, !.dz = RInt(0)]
        ELSE [p EXCEPT !.z = z, !.dz = dz]
\* Game.update_held_keys_effects_player_movement
update_held_keys_effects_player_movement(p, k) ==
    [p EXCEPT !.moves.move_down = k.key_s, !.moves.move_up = k.key_w,
              !.moves.move_left = k.key_a, !.moves.move_right = k.key_d]
\* Game.update_held_keys_effects_grid_xfm
update_held_keys_effects_grid_xfm(g, k) ==
    [g EXCEPT !.a = g.a + (IF k.key_A THEN 1 ELSE 0),
              !.b = g.b + (IF k.key_B THEN 1 ELSE 0) - (IF k.key_b THEN 1 ELSE 0),
              !.c = g.c + (IF k.key_C THEN 1 ELSE 0) - (IF k.key_c THEN 1 ELSE 0),
              !.d = g.d + (IF k.key_D THEN 1 ELSE 0),
              !.e = g.e + (IF k.key_E THEN 1 ELSE 0) - (IF k.key_e THEN 1 ELSE 0),
              !.f = g.f + (IF k.key_F THEN 1 ELSE 0) - (IF k.key_f THEN 1 ELSE 0)]
\* Game.update_mouse_height
update_mouse_height(g, mpos, vox) ==
    LET G == xfm_pg(g, RPoint(mpos))
    IN  IF G \in DOMAIN vox
        THEN [mouse_height |-> vox[G].height, mouse_z |-> vox[G].z]
        ELSE [mouse_height |-> 0, mouse_z |-> 0]

\* ------------------------------------------------------------ VoxelArtwork
\* A variant of adjust_voxel_size that moves each corner inward by 1 - p.
adjust_voxel_size_not_halved(vox) ==
    [G \in DOMAIN vox |->
        LET Gs == GridPoints(G)
            d == RSub(RInt(1), vox[G].percentage)
        IN  [z |-> vox[G].z,
             grid_points |->
                <<<<RAdd(RInt(Gs[1][1]), d), RAdd(RInt(Gs[1][2]), d)>>,
                  <<RSub(RInt(Gs[2][1]), d), RAdd(RInt(Gs[2][2]), d)>>,
                  <<RSub(RInt(Gs[3][1]), d), RSub(RInt(Gs[3][2]), d)>>,
                  <<RAdd(RInt(Gs[4][1]), d), RSub(RInt(Gs[4][2]), d)>>>>,
             height |-> vox[G].height,
             style |-> vox[G].style]]
\* VoxelArtwork.adjust_voxel_size: each voxel's footprint shrunk toward the
\* centre of its tile by d = (1 - percentage)/2.
adjust_voxel_size(vox) ==
    [G \in DOMAIN vox |->
        LET Gs == GridPoints(G)
            d == RDiv(RSub(RInt(1), vox[G].percentage), RInt(2))
        IN  [z |-> vox[G].z,
             grid_points |->
                <<<<RAdd(RInt(Gs[1][1]), d), RAdd(RInt(Gs[1][2]), d)>>,
                  <<RSub(RInt(Gs[2][1]), d), RAdd(RInt(Gs[2][2]), d)>>,
                  <<RSub(RInt(Gs[3][1]), d), RSub(RInt(Gs[3][2]), d)>>,
                  <<RAdd(RInt(Gs[4][1]), d), RSub(RInt(Gs[4][2]), d)>>>>,
             height |-> vox[G].height,
             style |-> vox[G].style]]

\* VoxelArtwork.render, "Figure out when to draw the player and mouse": the
\* draw index of an occupant at integer grid point q.
RECURSIVE DrawIndexLoop(_, _, _, _, _)
DrawIndexLoop(k, voxels_, q, voxel_index, draw_index) ==
    IF k > Len(grid_list) THEN draw_index
    ELSE LET G == grid_list[k]
         IN  IF G \in DOMAIN voxels_
             THEN CHOOSE r \in {DrawIndexLoop(k + 1, voxels_, q, i, d) :
                     i \in {voxel_index + 1},
                     d \in {IF q[1] >= G[1] /\ q[2] <= G[2]
                            THEN voxel_index + 1 ELSE draw_index}} : TRUE
             ELSE DrawIndexLoop(k + 1, voxels_, q, voxel_index, draw_index)
\* A variant of the loop that increments the voxel index at the beginning of
\* an iteration, before the front/behind comparison.
RECURSIVE DrawIndexLoopIncrementFirst(_, _, _, _, _)
DrawIndexLoopIncrementFirst(k, voxels_, q, voxel_index, draw_index) ==
    IF k > Len(grid_list) THEN draw_index
    ELSE LET G == grid_list[k]
         IN  IF G \in DOMAIN voxels_
             THEN CHOOSE r \in {DrawIndexLoopIncrementFirst(k + 1, voxels_, q, i, d) :
                     i \in {voxel_index + 1},
                     d \in {IF q[1] >= G[1] /\ q[2] <= G[2]
                            THEN voxel_index + 2 ELSE draw_index}} : TRUE
             ELSE DrawIndexLoopIncrementFirst(k + 1, voxels_, q, voxel_index, draw_index)
DrawIndexIncrementFirst(voxels_, q) == DrawIndexLoopIncrementFirst(1, voxels_, q, 0, 0)
DrawIndex(voxels_, q) == DrawIndexLoop(1, voxels_, q, 0, 0)

\* VoxelArtwork.render, the "match style" block: what drawing one voxel does
\* with the settings and colours dictionaries at hand.
DrawVoxel(style, sett) ==
    CASE style = "style_floor_tiles" ->
            IF "setting_render_floor_tiles" \notin DOMAIN sett THEN "KeyError"
            ELSE IF ~sett["setting_render_floor_tiles"] THEN "skipped"
            ELSE IF {"color_voxel_top_floor", "color_voxel_left_floor",
                     "color_voxel_right_floor"} \subseteq define_colors
                 THEN "drawn" ELSE "KeyError"
      [] style = "style_shade_faces_solid_color" ->
            IF {"color_voxel_top", "color_voxel_left", "color_voxel_left_shadow",
                "color_voxel_right", "color_voxel_right_shadow"} \subseteq define_colors
            THEN "drawn" ELSE "KeyError"
      [] style = "style_skeleton_frame" ->
            IF {"color_voxel_top", "color_voxel_left", "color_voxel_right"}
                   \subseteq define_colors
            THEN "drawn" ELSE "KeyError"
      [] OTHER -> "skipped"

Draw(kind, at) == [kind |-> kind, at |-> at]
\* VoxelArtwork.render, "Draw voxels!": one iteration of the loop over
\* grid_list.  c holds what the loop reads: voxels, mouse, the two draw
\* indexes, the rounded player position and the settings.
RenderCell(G, st, c) ==
    LET result == IF G \in DOMAIN c.voxels
                  THEN DrawVoxel(c.voxels[G].style, c.settings) ELSE "none"
        s1 == IF G \in DOMAIN c.voxels
              THEN [st EXCEPT
                      !.log = (IF result = "drawn"
                               THEN Append(st.log, Draw("voxel", G)) ELSE st.log)
                              \o (IF G = c.mouse
                                  THEN <<Draw("mouse_on_voxel", G)>> ELSE <<>>),
                      !.voxel_index = st.voxel_index + 1]
              ELSE st
        s2 == IF s1.voxel_index = c.mouse_draw_index /\ ~s1.mouse_is_rendered
              THEN [s1 EXCEPT !.log = Append(s1.log, Draw("mouse", c.mouse)),
                              !.mouse_is_rendered = TRUE]
              ELSE s1
        s3 == IF s2.voxel_index = c.player_draw_index /\ ~s2.player_is_rendered
              THEN [s2 EXCEPT !.log = Append(s2.log, Draw("player", c.player)),
                              !.player_is_rendered = TRUE]
              ELSE s2
        s4 == IF c.mouse[1] >= c.player[1] /\ c.mouse[2] <= c.player[2]
              THEN [s3 EXCEPT !.log = Append(s3.log, Draw("mouse_around_player", c.mouse))]
              ELSE s3
    IN  IF result = "KeyError" THEN [st EXCEPT !.error = TRUE] ELSE s4
RECURSIVE RenderLoop(_, _, _)
RenderLoop(k, st, c) ==
    IF k > Len(grid_list) \/ st.error THEN st
    ELSE CHOOSE r \in {RenderLoop(k + 1, s1, c) :
                           s1 \in {RenderCell(grid_list[k], st, c)}} : TRUE
\* VoxelArtwork.render: the draw calls of one pass, in order, and whether the
\* pass ended in an uncaught KeyError.
RenderPass(c) ==
    LET st0 == [voxel_index |-> 0, player_is_rendered |-> FALSE,
                mouse_is_rendered |-> FALSE, log |-> <<>>, error |-> FALSE]
        n == Cardinality(DOMAIN c.voxels)
        AfterLoop(st1) ==
            LET st2 == IF c.mouse_draw_index >= n /\ ~st1.mouse_is_rendered
                       THEN [st1 EXCEPT !.log = Append(st1.log, Draw("mouse", c.mouse)),
                                        !.mouse_is_rendered = TRUE]
                       ELSE st1
                st3 == IF c.player_draw_index >= n /\ ~st2.player_is_rendered
                       THEN [st2 EXCEPT !.log = Append(st2.log, Draw("player", c.player)),
                                        !.player_is_rendered = TRUE]
                       ELSE st2
            IN  [log |-> IF st1.error THEN st1.log ELSE st3.log,
                 error |-> st1.error,
                 player_draw_index |-> c.player_draw_index,
                 mouse_draw_index |-> c.mouse_draw_index,
                 footprints |-> [G \in DOMAIN c.voxels |-> c.voxels[G].grid_points]]
    IN  CHOOSE r \in {AfterLoop(st1) : st1 \in {RenderLoop(1, st0, c)}} : TRUE
render(vox, p, g, mpos, sett) ==
    CHOOSE r \in {RenderPass(c) :
                     c \in {[voxels |-> voxels_, mouse |-> mouse, player |-> pl,
                             settings |-> sett,
                             player_draw_index |-> DrawIndex(voxels_, pl),
                             mouse_draw_index |-> DrawIndex(voxels_, mouse)] :
                               voxels_ \in {adjust_voxel_size(vox)},
                               mouse \in {xfm_pg(g, RPoint(mpos))},
                               pl \in {<<Round(p.pos[1]), Round(p.pos[2])>>}}} : TRUE

\* ------------------------------------------------------------ key handlers
\* Game.handle_keydown_single_shot, the cases K_j, K_k, K_h, K_l: the
\* discrete move to a tile, and the reversal of a move under way.
Opposite(direction) ==
    CASE direction = "down" -> "up"
      [] direction = "up" -> "down"
      [] direction = "left" -> "right"
      [] direction = "right" -> "left"
\* "Go back to the tile you were on when you started moving" in the
\* direction now cancelled.
StartAfterReversal(pos_start, cancelled) ==
    CASE cancelled = "up" -> <<pos_start[1], pos_start[2] + Milli>>
      [] cancelled = "down" -> <<pos_start[1], pos_start[2] - Milli>>
      [] cancelled = "right" -> <<pos_start[1] + Milli, pos_start[2]>>
      [] cancelled = "left" -> <<pos_start[1] - Milli, pos_start[2]>>
CancelOpposite(p, direction) ==
    IF p.moves[ToTile(Opposite(direction))]
    THEN [p EXCEPT !.moves[ToTile(Opposite(direction))] = FALSE,
                   !.pos_start = StartAfterReversal(p.pos_start, Opposite(direction))]
    ELSE p
DiscreteKey(direction) ==
    CASE direction = "down" -> "j"
      [] direction = "up" -> "k"
      [] direction = "left" -> "h"
      [] direction = "right" -> "l"
FreeKey(direction) ==
    CASE direction = "down" -> "key_s"
      [] direction = "up" -> "key_w"
      [] direction = "left" -> "key_a"
      [] direction = "right" -> "key_d"
handle_keydown_single_shot(p, direction) ==
    CancelOpposite([p EXCEPT !.moves[ToTile(direction)] = TRUE], direction)
\* Game.handle_keydown_held_keys, the cases K_s, K_w, K_a, K_d: with Shift
\* the key nudges the player, without it the key is held.
handle_keydown_held_keys(k, p, direction, shift) ==
    IF shift
    THEN [keys |-> k, player |-> [p EXCEPT !.pos = Advance(p.pos, direction)]]
    ELSE [keys |-> [k EXCEPT ![FreeKey(direction)] = TRUE],
          player |-> CancelOpposite(p, direction)]
\* Game.handle_keyup_movement: the released key's move goes on to the tile.
StartAtNearestTile(pos, direction) ==
    IF direction \in {"down", "up"}
    THEN <<pos[1], Round(pos[2]) * Milli>>
    ELSE <<Round(pos[1]) * Milli, pos[2]>>
handle_keyup_movement(k, p, direction) ==
    [keys |-> [k EXCEPT ![FreeKey(direction)] = FALSE],
     player |->
        IF ~k[FreeKey(Opposite(direction))] /\ ~p.is_on_tile
        THEN [p EXCEPT !.pos_start = StartAtNearestTile(p.pos, direction),
                       !.moves[ToTile(direction)] = TRUE]
        ELSE p]
\* str.lstrip(chars) for a string held as a sequence of characters.
RECURSIVE lstrip(_, _)
lstrip(str, chars) ==
    IF str /= <<>> /\ Head(str) \in chars THEN lstrip(Tail(str), chars) ELSE str
\* event.unicode of the keys typed while casting.
unicode(key, shift) ==
    CASE key = "a" -> IF shift THEN "A" ELSE "a"
      [] key = "semicolon" -> IF shift THEN ":" ELSE ";"
      [] OTHER -> ""
\* Game.handle_keydown_casting
handle_keydown_casting(p, key, shift) ==
    CASE key = "Return" ->
            [p EXCEPT !.spell = lstrip(p.keystrokes, {":"}), !.keystrokes = <<>>,
                      !.is_casting = FALSE]
      [] key = "Escape" -> [p EXCEPT !.keystrokes = <<>>, !.is_casting = FALSE]
      [] key = "Backspace" ->
            [p EXCEPT !.keystrokes = SubSeq(@, 1, Len(@) - 1)]
      [] key = "a" ->
            [p EXCEPT !.keystrokes =
                          Append(@, IF shift THEN "a_acute" ELSE unicode(key, shift))]
      [] OTHER -> [p EXCEPT !.keystrokes = Append(@, unicode(key, shift))]
\* Game.handle_mousebuttondown_leftclick: place the player.
handle_mousebuttondown_leftclick(p, g, ms, event_pos) ==
    LET G == xfm_pg(g, RPoint(event_pos))
        pos == <<G[1] * Milli, G[2] * Milli>>
    IN  [stop_all_movement(p) EXCEPT
            !.pos = pos,
            !.z = RMul(RMul(RInt(-1), g.scale), RInt(ms.mouse_height)),
            !.pos_start = pos,
            !.is_on_tile = TRUE]

\* Game.handle_mousebuttondown_middleclick, Game.handle_mousebuttonup_middleclick
handle_mousebuttondown_middleclick(g, mpos) ==
    [g EXCEPT !.pan_ref = mpos, !.is_panning = TRUE]
handle_mousebuttonup_no_commit(g) == [g EXCEPT !.pan_ref = NoRef, !.is_panning = FALSE]
handle_mousebuttonup_middleclick(g) ==
    [g EXCEPT !.pan_ref = NoRef, !.pan_origin = <<g.e, g.f>>, !.is_panning = FALSE]

\* ------------------------------------------------------------ state
VARIABLES
    player,     \* Player: pos, pos_start, is_on_tile, moves, z, dz, voxel, ...
    grid,       \* Grid: a, b, c, d, e, f, scale, pan_origin, pan_ref, is_panning
    keys,       \* Game.keys: which keys are held
    settings,   \* Game.settings
    mouses,     \* Game.mouses: mouse_height, mouse_z
    os_window,  \* OsWindow: size, windowed size, fullscreen size, is_fullscreen
    env,        \* outside the program: mouse position, Shift held
    layout,     \* TileMap.layout
    voxels,     \* VoxelArtwork.layout
    drawn,      \* the draw calls of the last render pass and its draw indexes
    pc,         \* where Game.game_loop stands
    hist,       \* history: zoom calls since the last reset, gravity steps
    fifo        \* a TimerFifo: size, readings, num_readings, data

vars == <<player, grid, keys, settings, mouses, os_window, env, layout, voxels,
          drawn, pc, hist, fifo>>

\* OsWindow.__init__: the program opens full screen, so the window has the
\* size of the desktop.  FitSize is the desktop that the grid and its margin
\* fill exactly; the two desktops make zoom_to_fit give a scale of 1 and of 2.
FitSize == <<Abs(8 * GridN + 7 * GridN) + margin, Abs(3 * GridN - 5 * GridN) + margin>>
Centre == <<FitSize[1] \div 2, FitSize[2] \div 2>>
DesktopSizes == {FitSize, <<2 * FitSize[1], 2 * FitSize[2]>>}
\* Player.__init__: the starting tile, in thousandths.
PlayerStart == <<0, 0>>
\* Where the pointer may be: the centre of the smaller desktop, the window's
\* corner, and the pixel of grid point (1, 0) under the initial view of the
\* smaller desktop.
MousePositions == {Centre, <<0, 0>>, <<Centre[1] + 8, Centre[2] + 3>>}

NewPlayer(start) ==
    [pos |-> start, pos_start |-> start, is_on_tile |-> TRUE,
     moves |-> define_moves, z |-> RInt(0), dz |-> RInt(0), voxel |-> None,
     action_levitate |-> FALSE, is_casting |-> FALSE, spell |-> <<>>,
     keystrokes |-> <<>>]
\* Game.__init__: OsWindow((120*16, 120*9), is_fullscreen=True); the windowed
\* size is as wide as the smaller desktop and twice as high.
WindowedSize == <<FitSize[1], 2 * FitSize[2]>>
NewOsWindow(size) ==
    [size |-> size, is_fullscreen |-> TRUE, windowed_size |-> WindowedSize,
     fullscreen_size |-> size]
\* OsWindow.toggle_fullscreen
toggle_fullscreen(w) ==
    [w EXCEPT !.is_fullscreen = ~w.is_fullscreen,
              !.size = IF w.is_fullscreen THEN w.windowed_size ELSE w.fullscreen_size]
\* OsWindow.handle_WINDOWRESIZED: self.size = (event.x, event.y).  size is a
\* property with a getter only (_size is the attribute behind it), so the
\* assignment raises AttributeError and the window keeps its fields.
handle_WINDOWRESIZED(w, x, y) ==
    LET settable == {"_windowed_size", "_fullscreen_size", "_is_fullscreen",
                     "_size", "_flags"}
    IN  IF "size" \in settable
        THEN [window |-> [w EXCEPT !.size = <<x, y>>], error |-> "none"]
        ELSE [window |-> w, error |-> "AttributeError"]
NoDraws == [log |-> <<>>, error |-> FALSE, player_draw_index |-> 0,
            mouse_draw_index |-> 0, footprints |-> <<>>]
\* The pointer rests at the centre of the smaller desktop, Shift is up;
\* axis names the keys the user presses in this run, drags the number of
\* times the user drags the view, quiet that no further event arrives.
NewEnv(axis) ==
    [mouse |-> Centre, shift |-> FALSE, axis |-> axis, drags |-> MaxPan,
     quiet |-> FALSE, left |-> FALSE]
NoTurn == [cancelled |-> "none", from |-> PlayerStart]
NoRelease == [direction |-> "none", pos |-> PlayerStart]
NewHist(scale) ==
    [zoom_in |-> 0, zoom_out |-> 0, scale0 |-> scale, gravity_steps |-> 0,
     contact |-> FALSE, fallen |-> 0, reversed |-> FALSE, blocked |-> {},
     pans |-> 0, nudge_ticks |-> 0, wheel |-> 0, added |-> 0, subtracted |-> 0,
     looked |-> [direction |-> "none", neighbor |-> <<0, 0>>], readings |-> <<>>,
     presses |-> 0, tile |-> PlayerStart, turn |-> NoTurn,
     release |-> NoRelease, z_start |-> RInt(0), placed |-> 0,
     starter |-> "none", released |-> {}]

\* Game.__init__ for a given tile layout, desktop and starting tile.
GameInit(lay, size, start) ==
    /\ layout = lay
    /\ voxels \in make_voxels_from_tile_map(lay)
    /\ os_window = NewOsWindow(size)
    /\ grid = reset(size)
    /\ keys = define_held_keys
    /\ settings = define_settings
    /\ mouses = [mouse_height |-> 0, mouse_z |-> 0]
    /\ player = NewPlayer(start)
    /\ drawn = NoDraws
    /\ hist = [NewHist(reset(size).scale) EXCEPT !.tile = start]
    /\ fifo = NewTimerFifo(FifoSize)

\* The run stays within MaxCoord tiles of the origin and levitates no
\* higher than MaxRise pixels above the ground plane.
InBounds ==
    /\ Abs(player.pos[1]) <= MaxCoord * Milli
    /\ Abs(player.pos[2]) <= MaxCoord * Milli
    /\ keys.key_Space => RLeq(RInt(-MaxRise), player.z)

\* ------------------------------------------------------------ Game.game_loop
\* self.update_gravity_effects()
UpdateGravityEffects ==
    /\ pc = "gravity"
    /\ InBounds
    /\ player' = update_gravity_effects(player, grid.scale)
    /\ hist' = [hist EXCEPT
                   !.z_start = player.z,
                   !.gravity_steps = IF player'.dz = RInt(0) THEN 0
                                     ELSE hist.gravity_steps + 1,
                   !.contact = player'.dz = RInt(0),
                   !.fallen = IF player'.dz = RInt(0) THEN hist.gravity_steps
                              ELSE 0]
    /\ pc' = "events"
    /\ UNCHANGED <<grid, keys, settings, mouses, os_window, env, layout, fifo, voxels, drawn>>

\* The player has left tile in the given direction and has not come as far
\* as the next tile.
InTransitFrom(pos, tile, direction) ==
    CASE direction = "up" ->
            pos[1] = tile[1] /\ tile[2] < pos[2] /\ pos[2] < tile[2] + Milli
      [] direction = "down" ->
            pos[1] = tile[1] /\ tile[2] - Milli < pos[2] /\ pos[2] < tile[2]
      [] direction = "right" ->
            pos[2] = tile[2] /\ tile[1] < pos[1] /\ pos[1] < tile[1] + Milli
      [] direction = "left" ->
            pos[2] = tile[2] /\ tile[1] - Milli < pos[1] /\ pos[1] < tile[1]
\* The move a key press cancels in mid-transit: the direction of the move
\* under way that is opposite to the key's and the tile the player stood on
\* last, when the player has moved from that tile in the direction now
\* cancelled; NoTurn when the press reverses nothing.
Turn(p, direction, tile) ==
    IF /\ ~p.is_on_tile
       /\ p.moves[ToTile(Opposite(direction))]
       /\ InTransitFrom(p.pos, tile, Opposite(direction))
    THEN [cancelled |-> Opposite(direction), from |-> tile]
    ELSE NoTurn
\* The move a key release leaves to go on to a tile: its direction and the
\* player's position at the release; NoRelease when the release starts no
\* such move (the opposite key is held, or the player is on a tile).
Release(k, p, direction) ==
    IF ~k[FreeKey(Opposite(direction))] /\ ~p.is_on_tile
    THEN [direction |-> direction, pos |-> p.pos]
    ELSE NoRelease
\* handle_ui_events: KEYDOWN of j, k, h or l.
KeyDownDiscrete(direction) ==
    /\ pc = "events"
    /\ ~player.is_casting
    /\ player' = handle_keydown_single_shot(player, direction)
    /\ hist' = [hist EXCEPT
                   !.reversed =
                       @ \/ (~player.is_on_tile /\ player.moves[ToTile(Opposite(direction))]),
                   !.turn = Turn(player, direction, hist.tile),
                   !.release = NoRelease]
    /\ UNCHANGED <<grid, keys, settings, mouses, os_window, env, layout, fifo, voxels,
                   drawn, pc>>
\* handle_ui_events: KEYDOWN of s, w, a or d; at most MaxPresses of them in
\* one run.
KeyDownFree(direction) ==
    /\ pc = "events"
    /\ ~player.is_casting
    /\ ~keys[FreeKey(direction)] \/ FreeKey(direction) \in hist.released
    /\ hist.presses < MaxPresses
    /\ LET r == handle_keydown_held_keys(keys, player, direction, env.shift)
       IN  keys' = r.keys /\ player' = r.player
    /\ hist' = [hist EXCEPT !.presses = @ + 1,
                             !.turn = IF env.shift THEN NoTurn
                                     ELSE Turn(player, direction, hist.tile),
                             !.release = NoRelease,
                             !.released = @ \ {FreeKey(direction)}]
    /\ UNCHANGED <<grid, settings, mouses, os_window, env, layout, fifo, voxels,
                   drawn, pc>>
\* handle_ui_events: KEYUP of s, w, a or d.
KeyUpFree(direction) ==
    /\ pc = "events"
    /\ ~player.is_casting
    /\ keys[FreeKey(direction)]
    /\ FreeKey(direction) \notin hist.released
    /\ LET r == handle_keyup_movement(keys, player, direction)
       IN  keys' = r.keys /\ player' = r.player
    /\ hist' = [hist EXCEPT !.turn = NoTurn,
                             !.release = Release(keys, player, direction)]
    /\ UNCHANGED <<grid, settings, mouses, os_window, env, layout, fifo, voxels,
                   drawn, pc>>
\* handle_ui_events: KEYDOWN and KEYUP of Space without Shift (levitate).
\* The key goes down while the player is between the ground plane and
\* MaxRise above it.
KeyDownSpace ==
    /\ pc = "events"
    /\ ~player.is_casting
    /\ ~env.shift
    /\ ~keys.key_Space
    /\ RLeq(RInt(-MaxRise), player.z) /\ RLeq(player.z, RInt(0))
    /\ keys' = [keys EXCEPT !.key_Space = TRUE]
    /\ UNCHANGED <<player, grid, settings, mouses, os_window, env, layout, fifo, voxels,
                   drawn, pc, hist>>
\* KEYDOWN of Space with Shift held sets key_Shift_Space (the voxels are
\* rebuilt in every tick while it is set).
KeyDownShiftSpace ==
    /\ pc = "events"
    /\ ~player.is_casting
    /\ env.shift
    /\ ~keys.key_Shift_Space
    /\ keys' = [keys EXCEPT !.key_Shift_Space = TRUE]
    /\ UNCHANGED <<player, grid, settings, mouses, os_window, env, layout, fifo, voxels,
                   drawn, pc, hist>>
KeyUpSpace ==
    /\ pc = "events"
    /\ ~player.is_casting
    /\ keys.key_Space \/ keys.key_Shift_Space
    /\ keys' = [keys EXCEPT !.key_Space = FALSE, !.key_Shift_Space = FALSE]
    /\ UNCHANGED <<player, grid, settings, mouses, os_window, env, layout, fifo, voxels,
                   drawn, pc, hist>>
\* handle_ui_events: MOUSEWHEEL with y = 1 or y = -1.
MouseWheel(y) ==
    /\ pc = "events"
    /\ hist.wheel < MaxZoom
    /\ grid' = IF y = 1 THEN zoom_in(grid) ELSE zoom_out(grid)
    /\ hist' = IF y = 1 THEN [hist EXCEPT !.zoom_in = hist.zoom_in + 1, !.wheel = @ + 1]
               ELSE [hist EXCEPT !.zoom_out = hist.zoom_out + 1, !.wheel = @ + 1]
    /\ UNCHANGED <<player, keys, settings, mouses, os_window, env, layout, fifo, voxels,
                   drawn, pc>>
\* The pointer moves (handle_ui_events passes over MOUSEMOTION).
MouseMotion(mpos) ==
    /\ pc = "events"
    /\ mpos /= env.mouse
    /\ env' = [env EXCEPT !.mouse = mpos]
    /\ UNCHANGED <<player, grid, keys, settings, mouses, os_window, layout, fifo, voxels,
                   drawn, pc, hist>>
\* handle_ui_events: MOUSEBUTTONDOWN, button 1 without Shift, at the pointer;
\* at most MaxClicks of them in one run.
LeftClick ==
    /\ pc = "events"
    /\ ~env.shift
    /\ hist.placed < MaxClicks
    /\ player' = handle_mousebuttondown_leftclick(player, grid, mouses, env.mouse)
    /\ hist' = [hist EXCEPT !.tile = player'.pos, !.turn = NoTurn,
                             !.release = NoRelease, !.placed = @ + 1]
    /\ UNCHANGED <<grid, keys, settings, mouses, os_window, env, layout, fifo, voxels,
                   drawn, pc>>
\* handle_ui_events: MOUSEBUTTONDOWN and MOUSEBUTTONUP, button 2.
MiddleClickDown ==
    /\ pc = "events"
    /\ ~grid.is_panning
    /\ hist.pans < env.drags
    /\ grid' = handle_mousebuttondown_middleclick(grid, env.mouse)
    /\ hist' = [hist EXCEPT !.pans = hist.pans + 1, !.starter = "middle"]
    /\ UNCHANGED <<player, keys, settings, mouses, os_window, env, layout, fifo, voxels,
                   drawn, pc>>
MiddleClickUp ==
    /\ pc = "events"
    /\ grid.is_panning
    /\ grid' = handle_mousebuttonup_middleclick(grid)
    /\ UNCHANGED <<player, keys, settings, mouses, os_window, env, layout, fifo, voxels,
                   drawn, pc, hist>>
\* handle_ui_events: MOUSEBUTTONDOWN, button 1 with Shift held, starts a drag
\* like button 2 (a drag may be under way); MOUSEBUTTONUP, button 1, ends
\* the drag only "if kmod & pygame.KMOD_SHIFT".
ShiftLeftDown ==
    /\ pc = "events"
    /\ env.shift
    /\ ~env.left
    /\ hist.pans < env.drags
    /\ grid' = handle_mousebuttondown_middleclick(grid, env.mouse)
    /\ env' = [env EXCEPT !.left = TRUE]
    /\ hist' = [hist EXCEPT !.pans = hist.pans + 1, !.starter = "left"]
    /\ UNCHANGED <<player, keys, settings, mouses, os_window, layout, fifo, voxels,
                   drawn, pc>>
LeftUp ==
    /\ pc = "events"
    /\ env.left
    /\ grid' = IF env.shift THEN handle_mousebuttonup_middleclick(grid) ELSE grid
    /\ env' = [env EXCEPT !.left = FALSE]
    /\ UNCHANGED <<player, keys, settings, mouses, os_window, layout, fifo, voxels,
                   drawn, pc, hist>>

\* handle_ui_events: KEYDOWN of ; with Shift held (handle_keydown_single_shot)
\* starts casting.
KeyDownColon ==
    /\ pc = "events"
    /\ ~player.is_casting
    /\ env.shift
    /\ player' = [player EXCEPT !.is_casting = TRUE]
    /\ UNCHANGED <<grid, keys, settings, mouses, os_window, env, layout, fifo, voxels,
                   drawn, pc, hist>>
\* handle_ui_events: KEYDOWN while casting; at most MaxKeystrokes characters
\* are typed.
CastKeys == {"Return", "Escape", "Backspace", "a", "semicolon"}
KeyDownCasting(key) ==
    /\ pc = "events"
    /\ player.is_casting
    /\ key \in {"a", "semicolon"} => Len(player.keystrokes) < MaxKeystrokes
    /\ player' = handle_keydown_casting(player, key, env.shift)
    /\ UNCHANGED <<grid, keys, settings, mouses, os_window, env, layout, fifo, voxels,
                   drawn, pc, hist>>
\* handle_ui_events: KEYUP while casting of a key whose flag is set:
\* handle_keyup does nothing.
KeyUpCasting(k) ==
    /\ pc = "events"
    /\ player.is_casting
    /\ keys[k]
    /\ k \notin hist.released
    /\ hist' = [hist EXCEPT !.released = @ \cup {k}]
    /\ UNCHANGED <<player, grid, keys, settings, mouses, os_window, env, layout, fifo,
                   voxels, drawn, pc>>

\* handle_ui_events: KEYDOWN and KEYUP of the left Shift key.
ShiftDown ==
    /\ pc = "events"
    /\ ~env.shift
    /\ env' = [env EXCEPT !.shift = TRUE]
    /\ UNCHANGED <<player, grid, keys, settings, mouses, os_window, layout, fifo, voxels,
                   drawn, pc, hist>>
ShiftUp ==
    /\ pc = "events"
    /\ env.shift
    /\ env' = [env EXCEPT !.shift = FALSE]
    /\ keys' = IF player.is_casting THEN keys
               ELSE [keys EXCEPT !.key_Shift_Space = FALSE, !.key_E = FALSE,
                                 !.key_F = FALSE]
    /\ UNCHANGED <<player, grid, settings, mouses, os_window, layout, fifo, voxels,
                   drawn, pc, hist>>
\* handle_ui_events: KEYDOWN and KEYUP of e or f (k is "e" or "f"): with
\* Shift the key is E or F.
OffsetKey(k, shift) ==
    CASE k = "e" /\ shift -> "key_E"
      [] k = "e" /\ ~shift -> "key_e"
      [] k = "f" /\ shift -> "key_F"
      [] k = "f" /\ ~shift -> "key_f"
KeyDownOffset(k) ==
    /\ pc = "events"
    /\ ~player.is_casting
    /\ ~keys[OffsetKey(k, TRUE)] /\ ~keys[OffsetKey(k, FALSE)]
    /\ hist.nudge_ticks < MaxNudge
    /\ keys' = [keys EXCEPT ![OffsetKey(k, env.shift)] = TRUE]
    /\ UNCHANGED <<player, grid, settings, mouses, os_window, env, layout, fifo, voxels,
                   drawn, pc, hist>>
KeyUpOffset(k) ==
    /\ pc = "events"
    /\ ~player.is_casting
    /\ keys[OffsetKey(k, TRUE)] \/ keys[OffsetKey(k, FALSE)]
    /\ keys' = [keys EXCEPT ![OffsetKey(k, TRUE)] = FALSE, ![OffsetKey(k, FALSE)] = FALSE]
    /\ UNCHANGED <<player, grid, settings, mouses, os_window, env, layout, fifo, voxels,
                   drawn, pc, hist>>
\* After a reset of the view the zoom steps are counted anew.
AfterReset(h, scale) == [h EXCEPT !.zoom_in = 0, !.zoom_out = 0, !.scale0 = scale]
\* handle_ui_events: KEYDOWN of r: self.grid.reset().
KeyDownR ==
    /\ pc = "events"
    /\ ~player.is_casting
    /\ grid' = reset(os_window.size)
    /\ hist' = AfterReset(hist, grid'.scale)
    /\ UNCHANGED <<player, keys, settings, mouses, os_window, env, layout, fifo, voxels,
                   drawn, pc>>
\* handle_ui_events: KEYDOWN of F11: toggle_fullscreen, define_surfaces,
\* self.grid.reset().
KeyDownF11 ==
    /\ pc = "events"
    /\ ~player.is_casting
    /\ os_window' = toggle_fullscreen(os_window)
    /\ grid' = reset(os_window'.size)
    /\ hist' = AfterReset(hist, grid'.scale)
    /\ UNCHANGED <<player, keys, settings, mouses, env, layout, fifo, voxels, drawn, pc>>

\* handle_keydown_single_shot, F1, F2 and F3:
\* settings[key] = not settings[key].  The read of a key the dictionary
\* lacks raises KeyError before anything is stored.
toggle_setting(sett, key) ==
    IF key \in DOMAIN sett
    THEN [settings |-> [sett EXCEPT ![key] = ~sett[key]], error |-> "none"]
    ELSE [settings |-> sett, error |-> "KeyError"]
SettingOfKey(fkey) ==
    CASE fkey = "F1" -> "setting_show_help"
      [] fkey = "F2" -> "setting_debug"
      [] fkey = "F3" -> "setting_render_floor_tiles"
KeyDownToggle(fkey) ==
    /\ pc = "events"
    /\ ~player.is_casting
    /\ LET r == toggle_setting(settings, SettingOfKey(fkey))
       IN  /\ settings' = r.settings
           /\ pc' = IF r.error = "none" THEN pc ELSE r.error
    /\ UNCHANGED <<player, grid, keys, mouses, os_window, env, layout, fifo, voxels,
                   drawn, hist>>

\* handle_ui_events: WINDOWRESIZED carrying (x, y).
WindowResized(size) ==
    /\ pc = "events"
    /\ LET r == handle_WINDOWRESIZED(os_window, size[1], size[2])
       IN  /\ os_window' = r.window
           /\ pc' = IF r.error = "none" THEN pc ELSE r.error
    /\ UNCHANGED <<player, grid, keys, settings, mouses, env, layout, fifo, voxels,
                   drawn, hist>>

\* After the events: grid.pan while panning, update_held_keys_effects,
\* player.update_actions.
OffsetKeyHeld == keys.key_E \/ keys.key_e \/ keys.key_F \/ keys.key_f
UpdateHeldKeysEffects ==
    /\ pc = "events"
    /\ OffsetKeyHeld => hist.nudge_ticks < MaxNudge
    /\ LET g1 == IF grid.is_panning THEN pan(grid, env.mouse) ELSE grid
           p1 == update_held_keys_effects_player_movement(player, keys)
           p2 == [p1 EXCEPT !.action_levitate = keys.key_Space]
       IN  /\ grid' = update_held_keys_effects_grid_xfm(g1, keys)
           /\ player' = update_actions(p2)
    /\ \/ /\ keys.key_Shift_Space
          /\ voxels' \in make_voxels_from_tile_map(layout)
          /\ layout' = tile_map_after_make_voxels(layout)
       \/ /\ ~keys.key_Shift_Space
          /\ voxels' = voxels
          /\ layout' = layout
    /\ hist' = [hist EXCEPT
                   !.gravity_steps = IF keys.key_Space THEN 0 ELSE hist.gravity_steps,
                   !.z_start = RInt(0),
                   !.nudge_ticks = IF OffsetKeyHeld THEN @ + 1 ELSE @]
    /\ pc' = "move"
    /\ UNCHANGED <<keys, settings, mouses, os_window, env, fifo, drawn>>
\* self.player.update_movement()
UpdateMovement ==
    /\ pc = "move"
    /\ player' = update_movement(player, layout, voxels, grid.scale)
    /\ hist' = [hist EXCEPT
                   !.blocked = Collisions(player, layout, voxels, grid.scale),
                   !.tile = IF player'.is_on_tile THEN player'.pos ELSE @]
    /\ pc' = "render"
    /\ UNCHANGED <<grid, keys, settings, mouses, os_window, env, layout, fifo, voxels,
                   drawn>>
\* self.voxel_artwork.render(...): an uncaught KeyError ends the program.
Render ==
    /\ pc = "render"
    /\ drawn' = render(voxels, player, grid, env.mouse, settings)
    /\ pc' = IF drawn'.error THEN "KeyError" ELSE "voxel"
    /\ UNCHANGED <<player, grid, keys, settings, mouses, os_window, env, layout, fifo,
                   voxels, hist>>
\* self.player.update_voxel(); self.update_mouse_height(); the frame ends.
UpdateVoxel ==
    /\ pc = "voxel"
    /\ player' = update_voxel(player, layout, voxels)
    /\ mouses' = update_mouse_height(grid, env.mouse, voxels)
    /\ pc' = "gravity"
    /\ UNCHANGED <<grid, keys, settings, os_window, env, layout, fifo, voxels, drawn, hist>>

\* ------------------------------------------------------------ movement
\* Discrete keys on one axis: the run presses only h and l, or only j and k.
AxisOf(direction) == IF direction \in {"left", "right"} THEN "x" ELSE "y"
InitSnap ==
    /\ \E lay \in {WireLayout, ClimbLayout, TileMapLayout}, size \in DesktopSizes :
          GameInit(lay, size, PlayerStart)
    /\ \E axis \in {"x", "y"} : env = NewEnv(axis)
    /\ pc = "gravity"
KeyDownOnAxis ==
    \E direction \in {"down", "up", "left", "right"} :
        /\ AxisOf(direction) = env.axis
        /\ KeyDownDiscrete(direction)
Frame ==
    \/ UpdateGravityEffects
    \/ UpdateHeldKeysEffects
    \/ UpdateMovement
    \/ Render
    \/ UpdateVoxel
NextSnap == Frame \/ KeyDownOnAxis
SpecSnap == InitSnap /\ [][NextSnap]_vars

\* ------------------------------------------------------------ free movement
\* The free keys s, w, a, d are pressed and released and the discrete key k
\* is pressed, in any order with the frames, on the flat layout.
InitMove ==
    /\ GameInit(WireLayout, FitSize, PlayerStart)
    /\ env = NewEnv("any")
    /\ pc = "gravity"
NextMove ==
    \/ Frame
    \/ KeyDownDiscrete("up")
    \/ \E direction \in {"down", "up", "left", "right"} : KeyDownFree(direction)
    \/ \E direction \in {"down", "up", "left", "right"} : KeyUpFree(direction)
SpecMove == InitMove /\ [][NextMove]_vars

\* ------------------------------------------------------------ input ends
\* The free keys s and w and the discrete keys j and k, until the input
\* ends; the frames go on running.
InputEnds ==
    /\ pc = "events"
    /\ ~env.quiet
    /\ env' = [env EXCEPT !.quiet = TRUE]
    /\ UNCHANGED <<player, grid, keys, settings, mouses, os_window, layout, fifo,
                   voxels, drawn, pc, hist>>
InitQuiet ==
    /\ GameInit(OpenFloor, FitSize, PlayerStart)
    /\ env = NewEnv("y")
    /\ pc = "gravity"
NextQuiet ==
    \/ Frame
    \/ (~env.quiet /\ KeyDownOnAxis)
    \/ (~env.quiet /\ \E direction \in {"down", "up"} : KeyDownFree(direction))
    \/ (~env.quiet /\ \E direction \in {"down", "up"} : KeyUpFree(direction))
    \/ InputEnds
SpecQuiet == InitQuiet /\ [][NextQuiet]_vars /\ WF_vars(Frame)

\* ------------------------------------------------------------ gravity
\* Falling, levitating and zooming on the steps and in the pit, with the
\* discrete keys of one axis.
InitGravity ==
    /\ \E lay \in {ClimbLayout, PitLayout, TileMapLayout} :
          GameInit(lay, FitSize, PlayerStart)
    /\ env = NewEnv("x")
    /\ pc = "gravity"
Zoom == MouseWheel(1) \/ MouseWheel(-1)
Levitate == KeyDownSpace \/ KeyUpSpace
NextGravity == Frame \/ KeyDownOnAxis \/ Levitate \/ Zoom
SpecGravity == InitGravity /\ [][NextGravity]_vars

\* ------------------------------------------------------------ void
\* Walking off the tiles with the discrete keys of one axis, and falling.
InitVoid ==
    /\ \E lay \in {LedgeLayout, PitLayout} : GameInit(lay, FitSize, PlayerStart)
    /\ \E axis \in {"x", "y"} : env = NewEnv(axis)
    /\ pc = "gravity"
NextVoid == Frame \/ KeyDownOnAxis
SpecVoid == InitVoid /\ [][NextVoid]_vars

\* ------------------------------------------------------------ placing
\* The pointer moves and the left button places the player, between steps
\* with the discrete keys of one axis.
InitClick ==
    /\ \E lay \in {WireLayout, ClimbLayout} : GameInit(lay, FitSize, PlayerStart)
    /\ env = NewEnv("x")
    /\ pc = "gravity"
NextClick ==
    \/ Frame
    \/ KeyDownOnAxis
    \/ \E mpos \in MousePositions : MouseMotion(mpos)
    \/ LeftClick
SpecClick == InitClick /\ [][NextClick]_vars

\* ------------------------------------------------------------ rebuild
\* The voxels are rebuilt with Shift+Space while the player walks along the
\* row of tiles.
InitRebuild ==
    /\ GameInit(JitterLayout, FitSize, PlayerStart)
    /\ env = NewEnv("x")
    /\ pc = "gravity"
NextRebuild ==
    \/ Frame
    \/ KeyDownOnAxis
    \/ ShiftDown
    \/ ShiftUp
    \/ KeyDownShiftSpace
    \/ KeyUpSpace
SpecRebuild == InitRebuild /\ [][NextRebuild]_vars

\* ------------------------------------------------------------ casting
\* The player walks with the free key s, and the user starts casting,
\* types, and ends casting, with Shift going down and up and s released at
\* any time.
NextCast ==
    \/ Frame
    \/ ShiftDown
    \/ ShiftUp
    \/ KeyDownColon
    \/ \E key \in CastKeys : KeyDownCasting(key)
    \/ KeyUpCasting("key_s")
    \/ KeyDownFree("down")
    \/ KeyUpFree("down")
SpecCast == InitQuiet /\ [][NextCast]_vars

\* ------------------------------------------------------------ view
\* Zooming and dragging the view while the frames run.
InitView ==
    /\ \E size \in DesktopSizes : GameInit(ClimbLayout, size, PlayerStart)
    /\ env = NewEnv("any")
    /\ pc = "gravity"
Pan ==
    \/ MiddleClickDown
    \/ MiddleClickUp
    \/ \E mpos \in MousePositions : MouseMotion(mpos)
NextView == Frame \/ Zoom \/ Pan
SpecView == InitView /\ [][NextView]_vars

\* ------------------------------------------------------------ drags
\* One drag more than in the other runs, on the smaller desktop, without
\* zooming.
InitPan ==
    /\ GameInit(ClimbLayout, FitSize, PlayerStart)
    /\ env = [NewEnv("any") EXCEPT !.drags = MaxPan + 1]
    /\ pc = "gravity"
NextPan == Frame \/ Pan
SpecPan == InitPan /\ [][NextPan]_vars

\* ------------------------------------------------------------ drags with Shift
\* The view is dragged with the middle button or with Shift and the left
\* button, Shift going down and up at any time.
NextShiftPan ==
    \/ Frame
    \/ ShiftDown
    \/ ShiftUp
    \/ ShiftLeftDown
    \/ LeftUp
    \/ MiddleClickDown
    \/ MiddleClickUp
    \/ \E mpos \in MousePositions : MouseMotion(mpos)
SpecShiftPan == InitView /\ [][NextShiftPan]_vars

\* ------------------------------------------------------------ reset
\* The view is zoomed, dragged and nudged with the offset key e, and reset
\* with r or F11, on the smaller desktop.  MaxZoom bounds the zoom steps,
\* drags and nudges of one run taken together.
InitReset ==
    /\ GameInit(ClimbLayout, FitSize, PlayerStart)
    /\ env = NewEnv("any")
    /\ pc = "gravity"
ViewBudget == hist.wheel + hist.pans + hist.nudge_ticks < MaxZoom
NextReset ==
    \/ Frame
    \/ (ViewBudget /\ Zoom)
    \/ (ViewBudget /\ MiddleClickDown)
    \/ MiddleClickUp
    \/ \E m \in MousePositions : MouseMotion(m)
    \/ (ViewBudget /\ KeyDownOffset("e"))
    \/ KeyUpOffset("e")
    \/ KeyDownR
    \/ KeyDownF11
SpecReset == InitReset /\ [][NextReset]_vars

\* ------------------------------------------------------------ settings
\* The player walks with the discrete keys of the x axis on the layout with
\* floor tiles or on the wire-frame layout, and the settings are toggled
\* with F1, F2 and F3.
InitSettings ==
    /\ \E lay \in {FloorLayout, WireLayout} : GameInit(lay, FitSize, PlayerStart)
    /\ env = NewEnv("x")
    /\ pc = "gravity"
NextSettings ==
    \/ Frame
    \/ KeyDownOnAxis
    \/ \E fkey \in {"F1", "F2", "F3"} : KeyDownToggle(fkey)
SpecSettings == InitSettings /\ [][NextSettings]_vars

\* ------------------------------------------------------------ window
\* The window is resized by the user and toggled between fullscreen and
\* windowed with F11, while the view is zoomed and reset.
ResizedSizes == {WindowedSize, <<FitSize[1] + 16, FitSize[2] + 9>>}
NextWindow ==
    \/ Frame
    \/ (ViewBudget /\ Zoom)
    \/ KeyDownR
    \/ KeyDownF11
    \/ \E size \in ResizedSizes : WindowResized(size)
SpecWindow == InitReset /\ [][NextWindow]_vars

\* ------------------------------------------------------------ degenerate view
\* The view with a scale of 0, whose determinant is 0 (the floats of the
\* program get there when scale * scale underflows), beside the initial one:
\* the frames run, the pointer moves and the view is dragged.
InitDegenerate ==
    /\ \E size \in DesktopSizes : \E s \in {RInt(0), reset(size).scale} :
          /\ layout = ClimbLayout
          /\ voxels \in make_voxels_from_tile_map(ClimbLayout)
          /\ os_window = NewOsWindow(size)
          /\ grid = [reset(size) EXCEPT !.scale = s]
          /\ hist = NewHist(s)
    /\ keys = define_held_keys
    /\ settings = define_settings
    /\ mouses = [mouse_height |-> 0, mouse_z |-> 0]
    /\ player = NewPlayer(PlayerStart)
    /\ drawn = NoDraws
    /\ fifo = NewTimerFifo(FifoSize)
    /\ env = NewEnv("any")
    /\ pc = "gravity"
NextDegenerate == Frame \/ Pan
SpecDegenerate == InitDegenerate /\ [][NextDegenerate]_vars

\* ------------------------------------------------------------ stepping
\* Chains of add and subtract of speed_walk on the player's x coordinate,
\* from any whole tile within MaxCoord of the origin, each float sum off by
\* any of the errors.
StepAdd(err) ==
    /\ hist.added + hist.subtracted < MaxSteps
    /\ player' = [player EXCEPT !.pos[1] = add_float(@, speed_walk, err)]
    /\ hist' = [hist EXCEPT !.added = @ + 1]
    /\ UNCHANGED <<grid, keys, settings, mouses, os_window, env, layout, fifo, voxels,
                   drawn, pc>>
StepSubtract(err) ==
    /\ hist.added + hist.subtracted < MaxSteps
    /\ player' = [player EXCEPT !.pos[1] = subtract_float(@, speed_walk, err)]
    /\ hist' = [hist EXCEPT !.subtracted = @ + 1]
    /\ UNCHANGED <<grid, keys, settings, mouses, os_window, env, layout, fifo, voxels,
                   drawn, pc>>
InitStep ==
    /\ \E n \in (-MaxCoord)..MaxCoord :
          GameInit(ClimbLayout, FitSize, <<n * Milli, 0>>)
    /\ env = NewEnv("x")
    /\ pc = "move"
NextStep ==
    \/ \E err \in FloatErrors : StepAdd(err)
    \/ \E err \in FloatErrors : StepSubtract(err)
SpecStep == InitStep /\ [][NextStep]_vars

\* ------------------------------------------------------------ neighbour lookup
\* The lookup of Player.handle_collision, in each direction, for the player
\* at any position within MaxCoord of the origin that steps of speed_walk
\* reach.
WalkPositions == {k * speed_walk : k \in (-(MaxCoord * Milli) \div speed_walk)..((MaxCoord * Milli) \div speed_walk)}
LookAhead(direction) ==
    /\ hist.looked.direction = "none"
    /\ hist' = [hist EXCEPT !.looked = [direction |-> direction,
                                        neighbor |-> Neighbor(player.pos, direction)]]
    /\ UNCHANGED <<player, grid, keys, settings, mouses, os_window, env, layout, fifo,
                   voxels, drawn, pc>>
InitLookup ==
    /\ \E x \in WalkPositions, y \in {0, -Milli} :
          GameInit(ClimbLayout, FitSize, <<x, y>>)
    /\ env = NewEnv("any")
    /\ pc = "move"
NextLookup == \E direction \in {"down", "up", "left", "right"} : LookAhead(direction)
SpecLookup == InitLookup /\ [][NextLookup]_vars

\* ------------------------------------------------------------ timer readings
\* Timer.stop: self.fifo.update(elapsed), with any reading up to MaxReading.
FifoUpdate(reading) ==
    /\ Len(hist.readings) < MaxUpdates
    /\ fifo' = update(fifo, reading)
    /\ hist' = [hist EXCEPT !.readings = Append(@, reading)]
    /\ UNCHANGED <<player, grid, keys, settings, mouses, os_window, env, layout,
                   voxels, drawn, pc>>
InitFifo ==
    /\ GameInit(ClimbLayout, FitSize, PlayerStart)
    /\ env = NewEnv("any")
    /\ pc = "gravity"
NextFifo == \E reading \in 0..MaxReading : FifoUpdate(reading)
SpecFifo == InitFifo /\ [][NextFifo]_vars

\* ------------------------------------------------------------ render pass
\* The inputs of one render pass: a layout of at most MaxTiles tiles on a few
\* cells of the grid (the first and the last cell of the walk among them),
\* the player on any tile within MaxCoord of the origin, the pointer on the
\* origin tile or off the grid.
TileKinds ==
    {floor_tile, Wire(5), Tile(0, <<1, 1>>, 25, "style_shade_faces_solid_color", 0)}
TileCells ==
    {<<tm_a, tm_b>>, <<0, 1>>, <<0, 0>>, <<1, 0>>, <<-1, -1>>, <<tm_b - 1, tm_a>>}
RenderLayouts ==
    UNION {[D -> TileKinds] : D \in {S \in SUBSET TileCells : Cardinality(S) <= MaxTiles}}
PlayerTiles ==
    {<<x * Milli, y * Milli>> : x \in -MaxCoord..MaxCoord, y \in -MaxCoord..MaxCoord}
InitRender ==
    /\ \E lay \in RenderLayouts, start \in PlayerTiles :
          GameInit(lay, FitSize, start)
    /\ \E mpos \in {Centre, <<Centre[1] - 3, Centre[2] - 24>>} : env = [NewEnv("any") EXCEPT !.mouse = mpos]
    /\ pc = "render"
NextRender == Render \/ UpdateVoxel
SpecRender == InitRender /\ [][NextRender]_vars

\* C1: with discrete keys of one axis only, whenever is_on_tile is true the
\* player's coordinate on that axis is an exact integer (a whole number of
\* thousandths of a tile).
AxisCoordinate == IF env.axis = "x" THEN player.pos[1] ELSE player.pos[2]
SnapInvariant == player.is_on_tile => AxisCoordinate % Milli = 0
\* The player stands on another tile than the first after a reversal in
\* mid-transit.
SnapWitness ==
    /\ player.is_on_tile
    /\ hist.reversed
    /\ player.pos /= PlayerStart
    /\ pc = "render"

\* C2: in a movement tick whose only direction is D, if the tile next in
\* the direction of travel exists and z - zclimbmax*scale > -(tile.z +
\* tile.height)*scale, then after the tick the coordinate on the axis of D
\* is the integer one tile short of that tile, the discrete flag of D is
\* cleared and is_on_tile is true.
OnlyDirection(direction) ==
    /\ Active(player, direction)
    /\ \A d \in {"down", "up", "left", "right"} \ {direction} : ~Active(player, d)
OneShort(neighbor, direction) ==
    CASE direction = "down" -> neighbor[2] + 1
      [] direction = "up" -> neighbor[2] - 1
      [] direction = "left" -> neighbor[1] + 1
      [] direction = "right" -> neighbor[1] - 1
TooHigh(tile) ==
    RLess(RMul(RInt(-(tile.z + tile.height)), grid.scale),
          RSub(player.z, RMul(zclimbmax, grid.scale)))
ClimbGateTick(direction) ==
    LET stepped == Advance(player.pos, direction)
        neighbor == Neighbor(IF ReachedNextTile(stepped, IF player.is_on_tile
                                                         THEN player.pos
                                                         ELSE player.pos_start,
                                                direction)
                             THEN NextTile(IF player.is_on_tile THEN player.pos
                                           ELSE player.pos_start, direction)
                             ELSE stepped, direction)
        axis == IF direction \in {"left", "right"} THEN 1 ELSE 2
    IN  (/\ pc = "move" /\ pc' = "render"
         /\ OnlyDirection(direction)
         /\ neighbor \in DOMAIN layout
         /\ TooHigh(voxels[neighbor]))
        => /\ player'.pos[axis] = OneShort(neighbor, direction) * Milli
           /\ ~player'.moves[ToTile(direction)]
           /\ player'.is_on_tile
VoxelDraws(G) ==
    {i \in DOMAIN drawn.log : drawn.log[i].kind = "voxel" /\ drawn.log[i].at = G}
PlayerDraws == {i \in DOMAIN drawn.log : drawn.log[i].kind = "player"}
AllVoxelDraws == {i \in DOMAIN drawn.log : drawn.log[i].kind = "voxel"}
RenderDone == pc \in {"voxel", "KeyError"}

\* C3: after a render pass every voxel of the layout has been drawn exactly
\* once, and G1 is drawn before G2 if and only if y1 > y2, or y1 = y2 and
\* x1 < x2.
DrawOrder ==
    RenderDone =>
        /\ \A G \in DOMAIN voxels : Cardinality(VoxelDraws(G)) = 1
        /\ \A G1, G2 \in DOMAIN voxels :
              G1 /= G2 =>
                 ((\E i \in VoxelDraws(G1), j \in VoxelDraws(G2) : i < j)
                    <=> (G1[2] > G2[2] \/ (G1[2] = G2[2] /\ G1[1] < G2[1])))

\* C4: after a render pass that ran to its end the player has been drawn
\* exactly once, whatever the layout and the player's position.
PlayerDrawnOnce == pc = "voxel" => Cardinality(PlayerDraws) = 1

\* C5: when no voxel G has round(x) >= G.x and round(y) <= G.y for the
\* player at (x, y), the player's draw index is 0 and the player is drawn
\* exactly once, before any voxel.
InFrontOfNoVoxel ==
    \A G \in DOMAIN voxels :
        ~(Round(player.pos[1]) >= G[1] /\ Round(player.pos[2]) <= G[2])
FrontOfNothingFirst ==
    (pc = "voxel" /\ InFrontOfNoVoxel) =>
        /\ drawn.player_draw_index = 0
        /\ Cardinality(PlayerDraws) = 1
        /\ \A i \in PlayerDraws, j \in AllVoxelDraws : i < j

\* C6: after every gravity step taken with a voxel recorded beneath the
\* player, of top H = voxel.z + voxel.height, z <= -H * scale; and when z plus
\* the new fall speed would pass that floor, the same step leaves z at exactly
\* -H * scale and dz at 0.
GravityStep == pc = "gravity" /\ pc' = "events"
FloorContactStep ==
    (GravityStep /\ player.voxel /= None) =>
        LET H == player.voxel.z + player.voxel.height
            floor_height == RMul(RInt(-1 * H), grid.scale)
            dz == RMin(RInt(15), RAdd(player.dz, <<1, 2>>))
        IN  /\ RLeq(player'.z, floor_height)
            /\ RLess(floor_height, RAdd(player.z, dz)) =>
                   player'.z = floor_height /\ player'.dz = RInt(0)
FallSpeedCapped ==
    /\ RLeq(player.dz, RInt(15))
    /\ player.dz = RMin(RInt(15), RNorm(hist.gravity_steps, 2))
FallStep == (GravityStep /\ ~hist'.contact) => RLess(player.z, player'.z)
FallSpeedCap == []FallSpeedCapped /\ [][FallStep]_vars
\* Thirty-one steps into a fall the speed is 15, not 15.5.
FallSpeedCapWitness ==
    /\ hist.gravity_steps = 31
    /\ player.dz = RInt(15)
    /\ pc = "events"

\* C8: in every view reached by zooming and dragging, the determinant is not
\* zero and every integer grid point g satisfies xfm_pg(xfm_gp(g)) = g.  The
\* grid points are the four corners of the tile map.
IntegerGridPoints == {tm_a, tm_b - 1} \X {tm_a, tm_b - 1}
RoundTrip ==
    /\ det(grid) /= RInt(0)
    /\ \A g \in IntegerGridPoints : xfm_pg(grid, xfm_gp(grid, RPoint(g))) = g
\* A view that has been zoomed both ways and dragged off the centre.
RoundTripWitness ==
    /\ hist.zoom_in = 1
    /\ hist.zoom_out = 1
    /\ ~grid.is_panning
    /\ <<grid.e, grid.f>> = <<268, 211>>
    /\ xfm_pg(grid, xfm_gp(grid, RPoint(<<-2, 1>>))) = <<-2, 1>>
    /\ pc = "gravity"

\* C9: xfm_gp((x, y)) = (a*scale*x + b*scale*y + e, c*scale*x + d*scale*y + f),
\* e and f not scaled; and with a = 8, b = 7, c = 3, d = -5, scale = 1,
\* e = f = 0, xfm_gp((1, 0)) = (8, 3) and xfm_pg((8, 3)) = (1, 0).
ExampleView ==
    /\ <<grid.a, grid.b, grid.c, grid.d>> = <<8, 7, 3, -5>>
    /\ grid.scale = RInt(1)
    /\ <<grid.e, grid.f>> = <<0, 0>>
ToPixel(x, y) ==
    <<RAdd(RAdd(RMul(RMul(RInt(grid.a), grid.scale), RInt(x)),
                RMul(RMul(RInt(grid.b), grid.scale), RInt(y))), RInt(grid.e)),
      RAdd(RAdd(RMul(RMul(RInt(grid.c), grid.scale), RInt(x)),
                RMul(RMul(RInt(grid.d), grid.scale), RInt(y))), RInt(grid.f))>>
ToPixelFormula ==
    /\ \A g \in IntegerGridPoints : xfm_gp(grid, RPoint(g)) = ToPixel(g[1], g[2])
    /\ ExampleView =>
          /\ xfm_gp(grid, RPoint(<<1, 0>>)) = RPoint(<<8, 3>>)
          /\ xfm_pg(grid, RPoint(<<8, 3>>)) = <<1, 0>>
\* The view of the example, reached by dragging the centre of the smaller
\* desktop to the corner, after a frame has been drawn with it.
ToPixelWitness ==
    /\ ExampleView
    /\ hist.pans = 1
    /\ pc = "gravity"
    /\ xfm_gp(grid, RPoint(<<1, 0>>)) = RPoint(<<8, 3>>)

\* C10: a step of the wheel multiplies the scale by 11/10 (up) or 9/10
\* (down) and leaves a, b, c, d, e, f alone; after m steps up and n steps
\* down, in any order, scale = scale0 * (11/10)^m * (9/10)^n.
RECURSIVE RPow(_, _)
RPow(x, n) == IF n = 0 THEN RInt(1) ELSE RMul(x, RPow(x, n - 1))
Matrix(g) == <<g.a, g.b, g.c, g.d, g.e, g.f>>
ZoomStep ==
    /\ hist'.zoom_in = hist.zoom_in + 1 =>
          grid'.scale = RMul(grid.scale, <<11, 10>>) /\ Matrix(grid') = Matrix(grid)
    /\ hist'.zoom_out = hist.zoom_out + 1 =>
          grid'.scale = RMul(grid.scale, <<9, 10>>) /\ Matrix(grid') = Matrix(grid)
ZoomClosedForm ==
    grid.scale = RMul(hist.scale0, RMul(RPow(<<11, 10>>, hist.zoom_in),
                                        RPow(<<9, 10>>, hist.zoom_out)))
ZoomExact == []ZoomClosedForm /\ [][ZoomStep]_vars
\* One step up and one down from the scale of 2 of the larger desktop.
ZoomWitness ==
    /\ hist.scale0 = RInt(2)
    /\ hist.zoom_in = 1
    /\ hist.zoom_out = 1
    /\ grid.scale = <<99, 50>>

\* C11: xfm_pg never fails: when the determinant of the scaled 2 x 2 part is
\* 0 (scale = 0), det is the stand-in 1/10000, no division by zero is raised
\* and xfm_pg gives an integer grid point for every pixel.
ScaledDet(g) ==
    RSub(RMul(RMul(RInt(g.a), g.scale), RMul(RInt(g.d), g.scale)),
         RMul(RMul(RInt(g.b), g.scale), RMul(RInt(g.c), g.scale)))
DegenerateSafe ==
    /\ ~ZeroDivisionError(grid)
    /\ ScaledDet(grid) = RInt(0) => det(grid) = <<1, 10000>>
    /\ \A mpos \in MousePositions : xfm_pg(grid, RPoint(mpos)) \in Int \X Int
\* A frame has run with the view of scale 0 dragged to the corner: the
\* pointer's pixel was taken to the grid with the stand-in determinant.
DegenerateWitness ==
    /\ grid.scale = RInt(0)
    /\ ScaledDet(grid) = RInt(0)
    /\ det(grid) = <<1, 10000>>
    /\ hist.pans = 1
    /\ env.mouse = <<0, 0>>
    /\ pc = "gravity"
    /\ xfm_pg(grid, RPoint(env.mouse)) = <<0, 0>>

\* C12: while the view is dragged every tick sets (e, f) to pan_origin plus
\* the pointer's displacement from pan_ref, the pointer's position when the
\* drag began; the end of the drag makes the current (e, f) the new
\* pan_origin and ends the drag, so successive drags add up; a, b, c, d and
\* scale do not change.
PanTick ==
    (pc = "events" /\ pc' = "move" /\ grid.is_panning) =>
        /\ grid'.e = grid.pan_origin[1] + (env.mouse[1] - grid.pan_ref[1])
        /\ grid'.f = grid.pan_origin[2] + (env.mouse[2] - grid.pan_ref[2])
        /\ grid'.is_panning
        /\ <<grid'.pan_origin, grid'.pan_ref>> = <<grid.pan_origin, grid.pan_ref>>
StartPan ==
    (~grid.is_panning /\ grid'.is_panning) =>
        /\ grid'.pan_ref = env.mouse
        /\ <<grid'.e, grid'.f, grid'.pan_origin>> = <<grid.e, grid.f, grid.pan_origin>>
StopPan ==
    (grid.is_panning /\ ~grid'.is_panning) =>
        /\ grid'.pan_origin = <<grid.e, grid.f>>
        /\ <<grid'.e, grid'.f>> = <<grid.e, grid.f>>
PanStep ==
    /\ PanTick
    /\ StartPan
    /\ StopPan
    /\ <<grid'.a, grid'.b, grid'.c, grid'.d, grid'.scale>>
          = <<grid.a, grid.b, grid.c, grid.d, grid.scale>>
PanCommitted == ~grid.is_panning => grid.pan_origin = <<grid.e, grid.f>>
FitToWindow(W, H) ==
    RMin(RNorm(W, Abs(8 * GridN + 7 * GridN) + 200),
         RNorm(H, Abs(3 * GridN + (-5) * GridN) + 200))
ResetStep ==
    (KeyDownR \/ KeyDownF11) =>
        /\ <<grid'.a, grid'.b, grid'.c, grid'.d>> = <<8, 7, 3, -5>>
        /\ <<grid'.e, grid'.f>> = <<os_window'.size[1] \div 2, os_window'.size[2] \div 2>>
        /\ ~grid'.is_panning
        /\ grid'.scale = FitToWindow(os_window'.size[1], os_window'.size[2])
ResetFits == [][ResetStep]_vars
\* The view has been zoomed, dragged and nudged, and was then reset in the
\* window that is twice as high as the grid needs.
ResetWitness ==
    /\ hist.wheel = 1
    /\ hist.zoom_in + hist.zoom_out = 0
    /\ hist.pans = 1
    /\ hist.nudge_ticks = 1
    /\ ~os_window.is_fullscreen
    /\ grid = reset(os_window.size)
    /\ grid.scale = RInt(1)

\* C14: in a movement tick whose only direction is D, for a player standing
\* on tile A with z = -top(A)*scale and scale > 0, and an existing tile B next
\* to A in direction D: the move is blocked (the player stays on A, on-tile,
\* the discrete flag of D cleared) exactly when top(B) - top(A) > 3.5, and
\* otherwise the player leaves A by one step of speed_walk; top is z + height
\* of the tile's voxel.
TileAt(pos) == <<pos[1] \div Milli, pos[2] \div Milli>>
Top(G) == voxels[G].z + voxels[G].height
AtRestOn(A) ==
    /\ player.is_on_tile
    /\ player.pos = <<A[1] * Milli, A[2] * Milli>>
    /\ A \in DOMAIN layout
    /\ RLess(RInt(0), grid.scale)
    /\ player.z = RMul(RInt(-Top(A)), grid.scale)
WalkableTick(direction) ==
    LET A == TileAt(player.pos)
        B == TileAt(NextTile(player.pos, direction))
        blocked == /\ player'.pos = player.pos
                   /\ player'.is_on_tile
                   /\ ~player'.moves[ToTile(direction)]
    IN  (/\ pc = "move" /\ pc' = "render"
         /\ OnlyDirection(direction)
         /\ AtRestOn(A)
         /\ B \in DOMAIN layout)
        => /\ blocked <=> 2 * (Top(B) - Top(A)) > 7
           /\ ~blocked => /\ player'.pos = Advance(player.pos, direction)
                          /\ ~player'.is_on_tile
StepsWalkable ==
    [][\A direction \in {"down", "up", "left", "right"} : WalkableTick(direction)]_vars
\* The player has walked from the tile of top 0 onto the step of top 3, has
\* come to rest there, and is about to walk back down.
StepsWalkableWitness ==
    /\ layout = ClimbLayout
    /\ pc = "move"
    /\ AtRestOn(<<0, -1>>)
    /\ Top(<<0, -1>>) = 3
    /\ player.moves.move_up_to_tile

\* C15: add and subtract return the exact sum and difference to 3 decimals
\* whatever the error of the float sum, so a chain of steps of speed_walk from
\* a whole coordinate is at start + 0.2 * (additions - subtractions), and five
\* steps in one direction end exactly on the adjacent whole coordinate.
DriftFree ==
    /\ player.pos[1] = player.pos_start[1] + speed_walk * (hist.added - hist.subtracted)
    /\ (hist.added = 5 /\ hist.subtracted = 0) => player.pos[1] = player.pos_start[1] + Milli
    /\ (hist.subtracted = 5 /\ hist.added = 0) => player.pos[1] = player.pos_start[1] - Milli
    /\ (player.pos_start[1] = Milli /\ hist.added = 3 /\ hist.subtracted = 0)
          => player.pos[1] = 1600
\* Five additions of 0.2 from 1 have ended on 2.
DriftFreeWitness ==
    /\ player.pos_start[1] = Milli
    /\ hist.added = 5 /\ hist.subtracted = 0
    /\ player.pos[1] = 2 * Milli

\* C16: floor(x) is the greatest integer <= x and ceiling(x) is the least
\* integer >= x, for the coordinate the lookup of handle_collision applies
\* them to: floor for left and down, ceiling for right and up.
GreatestIntegerBelow(m) == m \div Milli
LeastIntegerAbove(m) == -((-m) \div Milli)
FloorCeiling ==
    LET at == hist.looked.neighbor
    IN  /\ hist.looked.direction = "left" => at[1] = GreatestIntegerBelow(player.pos[1])
        /\ hist.looked.direction = "down" => at[2] = GreatestIntegerBelow(player.pos[2])
        /\ hist.looked.direction = "right" => at[1] = LeastIntegerAbove(player.pos[1])
        /\ hist.looked.direction = "up" => at[2] = LeastIntegerAbove(player.pos[2])
\* The same on fractional coordinates only, where it holds.
FloorCeilingFractional ==
    LET at == hist.looked.neighbor
    IN  /\ (hist.looked.direction = "left" /\ player.pos[1] % Milli /= 0)
              => at[1] = GreatestIntegerBelow(player.pos[1])
        /\ (hist.looked.direction = "right" /\ player.pos[1] % Milli /= 0)
              => at[1] = LeastIntegerAbove(player.pos[1])

\* C17: after k >= 1 updates the mean of the TimerFifo is the arithmetic mean
\* of the most recent min(k, size) readings, and with no update it is 0.
RecentReadings ==
    LET k == Len(hist.readings)
        n == IF k < fifo.size THEN k ELSE fifo.size
    IN  SubSeq(hist.readings, k - n + 1, k)
FifoMean ==
    IF hist.readings = <<>>
    THEN mean(fifo) = RInt(0)
    ELSE mean(fifo) = RNorm(Sum(RecentReadings), Len(RecentReadings))
\* More updates than the buffer holds, the oldest reading being the largest:
\* it no longer counts.
FifoMeanWitness ==
    /\ Len(hist.readings) = FifoSize + 1
    /\ hist.readings[1] = MaxReading
    /\ \A i \in 2..Len(hist.readings) : hist.readings[i] = 1
    /\ mean(fifo) = RInt(1)

\* C18: after the movement step of a tick, whatever free and discrete keys
\* were pressed, a player flagged on-tile has whole coordinates on both axes.
OnTileWhole ==
    (pc = "render" /\ player.is_on_tile)
        => (player.pos[1] % Milli = 0 /\ player.pos[2] % Milli = 0)

\* C19: after the movement step of a tick that leaves the player off-tile,
\* exactly one coordinate is fractional, and it lies strictly between
\* pos_start and pos_start + 1 or pos_start - 1 on its axis.
MidTransitAxes == {i \in {1, 2} : player.pos[i] % Milli /= 0}
MidTransit ==
    (pc = "render" /\ ~player.is_on_tile)
        => /\ Cardinality(MidTransitAxes) = 1
           /\ \A i \in MidTransitAxes :
                 /\ player.pos[i] /= player.pos_start[i]
                 /\ Abs(player.pos[i] - player.pos_start[i]) < Milli

\* C20: the discrete flags of opposite directions are never both set.
Exclusive ==
    /\ ~(player.moves.move_down_to_tile /\ player.moves.move_up_to_tile)
    /\ ~(player.moves.move_left_to_tile /\ player.moves.move_right_to_tile)

\* C21: once the input has ended with some discrete flag set and no free
\* key held, the frames bring the player to rest: on a tile, on whole
\* coordinates, every discrete flag cleared (or the run has left the bounds).
SomeToTile == \E d \in {"down", "up", "left", "right"} : player.moves[ToTile(d)]
NoFreeKeyHeld == \A d \in {"down", "up", "left", "right"} : ~keys[FreeKey(d)]
AtRest ==
    /\ player.is_on_tile
    /\ player.pos[1] % Milli = 0 /\ player.pos[2] % Milli = 0
    /\ ~SomeToTile
DiscreteMovesComplete ==
    (env.quiet /\ SomeToTile /\ NoFreeKeyHeld) ~> (AtRest \/ ~InBounds)

\* C22: once the input has ended with a reversal in mid-transit (a key that
\* cancels the move under way in the opposite direction) and no free key
\* held, the frames bring the player to rest on the tile it stood on last,
\* the tile it was leaving (or a tile has blocked the player, or the run has
\* left the bounds).
JustReversed == hist.turn.cancelled /= "none"
RestsWhereItLeft ==
    /\ player.is_on_tile
    /\ player.pos = hist.turn.from
    /\ ~SomeToTile
ReversalReturns ==
    (env.quiet /\ JustReversed /\ NoFreeKeyHeld)
        ~> (RestsWhereItLeft \/ hist.blocked /= {} \/ ~InBounds)

\* C23: once the input has ended with the release of a free key in
\* mid-transit (the opposite key not held), the frames bring the player to
\* rest on the first tile boundary ahead of where it was at the release (or
\* a tile has blocked the player, or the run has left the bounds).
BoundaryAhead(pos, direction) ==
    CASE direction = "down" -> <<pos[1], GreatestIntegerBelow(pos[2]) * Milli>>
      [] direction = "up" -> <<pos[1], LeastIntegerAbove(pos[2]) * Milli>>
      [] direction = "left" -> <<GreatestIntegerBelow(pos[1]) * Milli, pos[2]>>
      [] direction = "right" -> <<LeastIntegerAbove(pos[1]) * Milli, pos[2]>>
      [] OTHER -> pos
JustReleased == hist.release.direction /= "none"
RestsOnBoundaryAhead ==
    /\ player.is_on_tile
    /\ player.pos = BoundaryAhead(hist.release.pos, hist.release.direction)
    /\ ~SomeToTile
FreeMoveEndsOnTile ==
    (env.quiet /\ JustReleased /\ NoFreeKeyHeld)
        ~> (RestsOnBoundaryAhead \/ hist.blocked /= {} \/ ~InBounds)

\* C24: a movement tick changes the player's position by at most one tile
\* width on each axis.
MovementTick == pc = "move" /\ pc' = "render"
NoTeleportStep ==
    MovementTick =>
        /\ Abs(player'.pos[1] - player.pos[1]) <= Milli
        /\ Abs(player'.pos[2] - player.pos[2]) <= Milli
NoTeleport == [][NoTeleportStep]_vars

\* C25: in a movement tick that starts from a tile and meets no blocking
\* tile, the player advances along the axis of each active direction D
\* (its opposite not active) by 0.7 * speed_walk when a direction
\* perpendicular to D is active too, and by speed_walk when none is.
Perpendicular(direction) ==
    IF direction \in {"down", "up"} THEN {"left", "right"} ELSE {"down", "up"}
AdvanceAlong(direction) ==
    CASE direction = "down" -> player.pos[2] - player'.pos[2]
      [] direction = "up" -> player'.pos[2] - player.pos[2]
      [] direction = "left" -> player.pos[1] - player'.pos[1]
      [] direction = "right" -> player'.pos[1] - player.pos[1]
DiagonalSpeedStep ==
    (MovementTick /\ player.is_on_tile /\ hist'.blocked = {}) =>
        \A D \in {"down", "up", "left", "right"} :
            (Active(player, D) /\ ~Active(player, Opposite(D))) =>
                AdvanceAlong(D) =
                    IF \E d \in Perpendicular(D) : Active(player, d)
                    THEN (7 * speed_walk) \div 10
                    ELSE speed_walk
DiagonalSpeed == [][DiagonalSpeedStep]_vars

\* C26: in a tick with the levitate action active the player's vertical
\* velocity is 0 after update_actions and z is z at the start of the tick
\* (before update_gravity_effects) less speed_rise.
ActionsStep == pc = "events" /\ pc' = "move"
LevitateOverridesStep ==
    (ActionsStep /\ keys.key_Space) =>
        /\ player'.dz = RInt(0)
        /\ player'.z = RSub(hist.z_start, speed_rise)
LevitateOverrides == [][LevitateOverridesStep]_vars

\* C27: after a render pass, with R = (round(x), round(y)) for the player
\* at (x, y), when some voxel G has G.x <= R.x and G.y >= R.y the player has
\* been drawn after every such voxel and before every voxel drawn after the
\* last of them.
BehindPlayer ==
    {G \in DOMAIN voxels :
        G[1] <= Round(player.pos[1]) /\ G[2] >= Round(player.pos[2])}
BehindDraws == UNION {VoxelDraws(G) : G \in BehindPlayer}
OccupantInsertion ==
    (pc = "voxel" /\ BehindPlayer /= {}) =>
        \E i \in PlayerDraws :
            /\ \A j \in BehindDraws : j < i
            /\ \A j \in AllVoxelDraws : j < i => \E k \in BehindDraws : j <= k
\* The player, between two tiles where rounding and truncating differ, has
\* been drawn between two voxels.
OccupantInsertionWitness ==
    /\ pc = "voxel"
    /\ BehindPlayer /= {}
    /\ Round(player.pos[2]) /= int(player.pos[2])
    /\ \E i \in PlayerDraws :
          /\ \E j \in AllVoxelDraws : j < i
          /\ \E j \in AllVoxelDraws : i < j

\* C28: in a render pass the pointer's highlight on the grid is drawn at
\* most once, and so is its front part around the player.
MouseDraws == {i \in DOMAIN drawn.log : drawn.log[i].kind = "mouse"}
MouseAroundPlayerDraws ==
    {i \in DOMAIN drawn.log : drawn.log[i].kind = "mouse_around_player"}
PointerDrawnOnce ==
    RenderDone =>
        /\ Cardinality(MouseDraws) <= 1
        /\ Cardinality(MouseAroundPlayerDraws) <= 1

\* C29: a movement tick whose only direction leads to a grid coordinate
\* with no tile advances the player by speed_walk; update_voxel leaves no
\* voxel under a player whose rounded position has no tile; and a gravity
\* step of a player with no voxel under it moves the player down, or rests
\* it on the Earth ground at 1000 * scale.
TileAhead(pos, direction) ==
    CASE direction = "down" ->
            <<GreatestIntegerBelow(pos[1]), LeastIntegerAbove(pos[2]) - 1>>
      [] direction = "up" ->
            <<GreatestIntegerBelow(pos[1]), GreatestIntegerBelow(pos[2]) + 1>>
      [] direction = "left" ->
            <<LeastIntegerAbove(pos[1]) - 1, GreatestIntegerBelow(pos[2])>>
      [] direction = "right" ->
            <<GreatestIntegerBelow(pos[1]) + 1, GreatestIntegerBelow(pos[2])>>
OnlyActive(direction) ==
    \A d \in {"down", "up", "left", "right"} : Active(player, d) <=> d = direction
TowardVoid(direction) ==
    /\ OnlyActive(direction)
    /\ player.pos[1] % Milli = 0 \/ player.pos[2] % Milli = 0
    /\ TileAhead(player.pos, direction) \notin DOMAIN layout
VoxelStep == pc = "voxel" /\ pc' = "gravity"
OverVoid(pos) == <<Round(pos[1]), Round(pos[2])>> \notin DOMAIN layout
EarthGround == RMul(RInt(1000), grid.scale)
VoidIsNoObstacleStep ==
    MovementTick =>
        \A D \in {"down", "up", "left", "right"} :
            TowardVoid(D) => AdvanceAlong(D) = speed_walk
NoFootprintStep == (VoxelStep /\ OverVoid(player.pos)) => player'.voxel = None
FallsStep ==
    (GravityStep /\ player.voxel = None) =>
        RLess(player.z, player'.z) \/ player'.z = EarthGround
AbsentTilesValid ==
    [][VoidIsNoObstacleStep /\ NoFootprintStep /\ FallsStep]_vars
\* The statement without the Earth ground: with no voxel under it the
\* player falls in every gravity step.
KeepsFallingStep == (GravityStep /\ player.voxel = None) => RLess(player.z, player'.z)
AbsentTilesKeepFalling ==
    [][VoidIsNoObstacleStep /\ NoFootprintStep /\ KeepsFallingStep]_vars
\* The player has walked off its tile toward a coordinate with no tile and
\* falls with no voxel under it.
AbsentTilesWitness ==
    /\ pc = "events"
    /\ ~player.is_on_tile
    /\ player.voxel = None
    /\ RLess(RInt(0), player.dz)
    /\ \E D \in {"down", "up", "left", "right"} : TowardVoid(D)

\* C30: a left click at pixel P puts the player on the tile toGrid(P) with
\* no movement flag set, is_on_tile true, pos_start equal to pos, and z at
\* the top of the voxel of that tile, -(z + height) * scale, or 0 where the
\* tile has no voxel.
ClickStep == hist'.placed /= hist.placed
TileUnder(P) == xfm_pg(grid, RPoint(P))
TopUnder(P) ==
    IF TileUnder(P) \in DOMAIN voxels
    THEN RMul(RInt(-1 * (voxels[TileUnder(P)].z + voxels[TileUnder(P)].height)),
              grid.scale)
    ELSE RInt(0)
PlacedOnTileStep ==
    ClickStep =>
        /\ player'.pos = <<TileUnder(env.mouse)[1] * Milli, TileUnder(env.mouse)[2] * Milli>>
        /\ player'.moves = define_moves
        /\ player'.is_on_tile
        /\ player'.pos_start = player'.pos
PlacedOnTopStep == ClickStep => player'.z = TopUnder(env.mouse)
PlaceActor == [][PlacedOnTileStep /\ PlacedOnTopStep]_vars

\* C31: the release of the button that started the drag under way ends the
\* drag and makes the current (e, f) the new pan_origin, whether Shift is
\* held or not.
ReleaseOfStarter ==
    \/ LeftUp /\ hist.starter = "left"
    \/ MiddleClickUp /\ hist.starter = "middle"
PanStopsOnReleaseStep ==
    (grid.is_panning /\ ReleaseOfStarter) =>
        /\ ~grid'.is_panning
        /\ grid'.pan_origin = <<grid.e, grid.f>>
PanStopsOnRelease == [][PanStopsOnReleaseStep]_vars

\* C32: when a drag starts, the pan_origin it works from is the current
\* (e, f), so a tick with the pointer still on pan_ref leaves (e, f) as it
\* is.
PanStart == MiddleClickDown \/ ShiftLeftDown
PanStartsAtOriginStep ==
    PanStart =>
        /\ grid'.pan_origin = <<grid'.e, grid'.f>>
        /\ <<pan(grid', grid'.pan_ref).e, pan(grid', grid'.pan_ref).f>> = <<grid.e, grid.f>>
PanStartsAtOrigin == [][PanStartsAtOriginStep]_vars

\* C33: no step changes the tile layout.
LayoutReadOnly == [][layout' = layout]_vars
\* The voxels have been rebuilt in this tick, one of them higher than its
\* tile, with the player away from the starting tile.
LayoutReadOnlyWitness ==
    /\ pc = "move"
    /\ keys.key_Shift_Space
    /\ player.pos /= PlayerStart
    /\ \E G \in DOMAIN layout : voxels[G].height > layout[G].height

\* C34: the voxels have the keys of the tile layout, and each voxel has its
\* tile's z, style and percentage and a height h with height <= h <
\* height + rand_amt when rand_amt > 0 and h = height otherwise.
RebuildPostcondition ==
    /\ DOMAIN voxels = DOMAIN layout
    /\ \A G \in DOMAIN layout :
          /\ voxels[G].z = layout[G].z
          /\ voxels[G].style = layout[G].style
          /\ voxels[G].percentage = layout[G].percentage
          /\ IF layout[G].rand_amt > 0
             THEN /\ layout[G].height <= voxels[G].height
                  /\ voxels[G].height < layout[G].height + layout[G].rand_amt
             ELSE voxels[G].height = layout[G].height
\* The voxels have been rebuilt in this tick and two of them are higher
\* than their tiles.
RebuildWitness ==
    /\ pc = "move"
    /\ keys.key_Shift_Space
    /\ voxels[<<-1, 0>>].height = layout[<<-1, 0>>].height + 1
    /\ voxels[<<1, 0>>].height = layout[<<1, 0>>].height + 2

\* C35: in a tick, a free-move intent, the levitate action and the rebuild
\* of the voxels are active only if the last event of their key was not a
\* key-up.
HeldKeysStep == pc = "events" /\ pc' = "move"
IntentsFollowKeysStep ==
    HeldKeysStep =>
        /\ \A d \in {"down", "up", "left", "right"} :
              player'.moves[Free(d)] => FreeKey(d) \notin hist.released
        /\ player'.action_levitate => "key_Space" \notin hist.released
        /\ keys.key_Shift_Space => "key_Shift_Space" \notin hist.released
IntentsFollowKeys == [][IntentsFollowKeysStep]_vars

\* C36: while the player is casting, a key event changes no held-key flag,
\* no movement flag, nothing of the view and no setting; a key-down changes
\* keystrokes only, except that Return and Escape end casting with
\* keystrokes empty, Return with the typed text as the spell and Escape with
\* the spell as it was; and keystrokes is empty whenever the player is not
\* casting.
KeyEventWhileCasting == player.is_casting /\ pc = "events" /\ pc' = "events"
CastingChangesNothingElse ==
    KeyEventWhileCasting =>
        /\ keys' = keys
        /\ player'.moves = player.moves
        /\ grid' = grid
        /\ settings' = settings
        /\ [player' EXCEPT !.keystrokes = <<>>, !.spell = <<>>, !.is_casting = TRUE]
               = [player EXCEPT !.keystrokes = <<>>, !.spell = <<>>, !.is_casting = TRUE]
CastingEnds ==
    /\ KeyDownCasting("Return") =>
          /\ ~player'.is_casting
          /\ player'.keystrokes = <<>>
          /\ player'.spell = player.keystrokes
    /\ KeyDownCasting("Escape") =>
          /\ ~player'.is_casting
          /\ player'.keystrokes = <<>>
          /\ player'.spell = player.spell
    /\ \A key \in CastKeys \ {"Return", "Escape"} :
          KeyDownCasting(key) => player'.is_casting /\ player'.spell = player.spell
ModalKeysStep ==
    /\ CastingChangesNothingElse
    /\ CastingEnds
    /\ ~player'.is_casting => player'.keystrokes = <<>>
ModalKeys == [][ModalKeysStep]_vars

\* C37: between two renders the steps run in the order events (with the
\* held keys applied), gravity, movement, and the render draws the player
\* where the movement step of the same frame left it.
InputThenGravity == (pc = "events" /\ pc' /= "events") => pc' = "gravity"
GravityThenMovement == (pc = "gravity" /\ pc' /= "gravity") => pc' = "move"
MovementThenRender ==
    /\ (pc = "move" /\ pc' /= "move") => pc' = "render"
    /\ (pc = "render" /\ pc' = "voxel") =>
          \E i \in DOMAIN drawn'.log :
              drawn'.log[i] =
                  Draw("player", <<Round(player.pos[1]), Round(player.pos[2])>>)
FrameOrder == [][InputThenGravity /\ GravityThenMovement /\ MovementThenRender]_vars

\* C38: a render leaves the stored voxels as they are and draws each voxel
\* on the unit square of its tile with every side moved inward by
\* d = (1 - p) / 2, p the voxel's own percentage: the footprint has the
\* tile's centre, lies within the unit square, and is the unit square when
\* p = 1.
Within(lo, q, hi) == RLeq(RInt(lo), q) /\ RLeq(q, RInt(hi))
FootprintOf(G, p, pts) ==
    LET d == RDiv(RSub(RInt(1), p), RInt(2))
        x0 == RAdd(RInt(G[1]), d)
        x1 == RSub(RInt(G[1] + 1), d)
        y0 == RAdd(RInt(G[2]), d)
        y1 == RSub(RInt(G[2] + 1), d)
    IN  /\ pts = <<<<x0, y0>>, <<x1, y0>>, <<x1, y1>>, <<x0, y1>>>>
        /\ RAdd(pts[1][1], pts[3][1]) = RInt(2 * G[1] + 1)
        /\ RAdd(pts[1][2], pts[3][2]) = RInt(2 * G[2] + 1)
        /\ \A i \in 1..4 : Within(G[1], pts[i][1], G[1] + 1)
                            /\ Within(G[2], pts[i][2], G[2] + 1)
        /\ p = RInt(1) =>
              pts = <<RPoint(GridPoints(G)[1]), RPoint(GridPoints(G)[2]),
                      RPoint(GridPoints(G)[3]), RPoint(GridPoints(G)[4])>>
FootprintStep ==
    (pc = "render" /\ pc' = "voxel") =>
        /\ voxels' = voxels
        /\ DOMAIN drawn'.footprints = DOMAIN voxels
        /\ \A G \in DOMAIN voxels :
              FootprintOf(G, voxels[G].percentage, drawn'.footprints[G])
ResizeTracked ==
    \A size \in ResizedSizes :
        WindowResized(size) => (os_window'.size = size /\ pc' = "events")
ToggleSwitchesSize ==
    KeyDownF11 =>
        /\ os_window'.windowed_size = os_window.windowed_size
        /\ os_window'.size = IF os_window.is_fullscreen
                              THEN os_window.windowed_size
                              ELSE os_window.fullscreen_size
ToggleKeepsWindowedSize == [][ToggleSwitchesSize]_vars
WindowSizeTracking == [][ResizeTracked /\ ToggleSwitchesSize]_vars

\* C40: the settings keys read while handling events or rendering are keys
\* of the settings dictionary; a render of a layout with floor-style tiles
\* runs to its end, and the key F3 toggles setting_render_floor_tiles, both
\* without a key-lookup error.
HasFloorTiles == \E G \in DOMAIN voxels : voxels[G].style = "style_floor_tiles"
NoMissingKeyStep ==
    /\ (Render /\ HasFloorTiles) => pc' = "voxel"
    /\ KeyDownToggle("F3") =>
            /\ pc' = "events"
            /\ settings'["setting_render_floor_tiles"]
                   = ~settings["setting_render_floor_tiles"]
NoMissingKey == [][NoMissingKeyStep]_vars
\* The two toggles whose keys define_settings sets complete and store the
\* negated value.
PresentKeysToggleStep ==
    \A fkey \in {"F1", "F2"} :
        KeyDownToggle(fkey) =>
            /\ pc' = "events"
            /\ settings'[SettingOfKey(fkey)] = ~settings[SettingOfKey(fkey)]
PresentKeysToggle == [][PresentKeysToggleStep]_vars
====
